---- MODULE Spec2Model ----
(***************************************************************************)
(* Verification model of the openclaw gateway core.                        *)
(*                                                                         *)
(* Part 1: the cron scheduler service operations (service/ops.ts: start,   *)
(* status, list, add, update, remove, run).  Every locked(...) block of    *)
(* the source is one atomic action: the cron lock serialises them.  The    *)
(* job body of run() executes between two locked blocks.  The helpers of   *)
(* service/jobs.ts, service/timer.ts and service/store.ts are not part of  *)
(* the source tree at hand and are modelled from the specification         *)
(* (sections 3, 4.3 and 8).                                                *)
(*                                                                         *)
(* Part 2: the node host's system.run handler (handleSystemRunInvoke).     *)
(* Part 3: the session and global command lanes of runEmbeddedPiAgent.     *)
(* Part 4: block streaming and the final payloads of runReplyAgent.        *)
(* Part 5: the gateway's chat.send handler and its final broadcast.        *)
(* Part 6: the cron lock as the operations of service/ops.ts take it.      *)
(* Part 7: the queue modes of a session: what runReplyAgent does with a    *)
(* turn that arrives while a run of the session is active.                 *)
(* Part 8: the resolution of dispatch wrappers in an argv                  *)
(* (infra/exec-wrapper-resolution.ts).                                     *)
(* Part 9: the attempt loop of runEmbeddedPiAgent: auth profile rotation   *)
(* and thinking-level fallback.                                            *)
(* Part 10: the StreamFn wrapper that runs the context_assembled and       *)
(* before_llm_call hooks (run/hook-stream-wrapper.ts).                     *)
(* Part 11: the typing signals, the compaction count and the session entry *)
(* of a turn of runReplyAgent.                                             *)
(* Part 12: the before_response_emit hook and the reply built from the     *)
(* assistant texts (run/hook-response-emit.ts).                            *)
(* Part 13: the reconnect delay of the browser relay (reconnectDelayMs).   *)
(*                                                                         *)
(* Each part has its own variables and its own specification; a            *)
(* specification leaves the variables of the other parts at their initial  *)
(* values.                                                                 *)
(***************************************************************************)
EXTENDS Integers, Sequences, FiniteSets, TLC

VARIABLES
    \* Part 1, cron
    now,        \* state.deps.nowMs()
    store,      \* state.store.jobs: job id -> CronJob (persisted at the end of every locked block)
    nextId,     \* the next fresh job id createJob hands out
    calls,      \* the run(id, mode) invocations in flight, one record per caller
    startPc,    \* position of the start() invocation
    startSkip,  \* startupInterruptedJobIds of start()
    missed,     \* jobs reserved by runMissedJobs whose body has not been applied yet
    events,     \* the set of started / finished events emitted so far
    lastOp,     \* the operation that acted last and what it returned
    \* Part 2, system.run
    execPc,     \* position of the handleSystemRunInvoke invocation
    execOpts,   \* opts and opts.params of the invocation
    execPolicy, \* policy: the decision of evaluateSystemRunPolicy
    execRun,    \* result.success of the command, once it has run
    execEvents, \* the node events sent for the invocation
    execResult, \* what sendInvokeResult was called with
    execAllowlistUse, \* the patterns recordAllowlistUse was called with, in order
    \* Part 3, command lanes
    turns,       \* the runEmbeddedPiAgent invocations, in the order they were made
    globalQueue, \* the queue of the global lane: indices into turns
    \* Part 4, runReplyAgent
    replyPc,                    \* position of the runReplyAgent invocation
    replyOpts,                  \* blockStreamingEnabled and whether opts.onBlockReply is given
    pendingStreamedPayloadKeys, \* block payloads handed to opts.onBlockReply, not settled yet
    streamedPayloadKeys,        \* block payloads opts.onBlockReply has delivered
    didStreamBlockReply,
    payloadArray,               \* runResult.payloads
    finalPayloads,              \* what runReplyAgent returns
    failedPayloadKeys,          \* block payloads whose delivery was rejected and that no later delivery made up for
    \* Part 5, chat.send
    chatDedupe,           \* context.dedupe: the idempotency keys with a recorded outcome
    chatAbortControllers, \* context.chatAbortControllers: the runs in flight
    chatFinalParts,       \* the texts the dispatcher passed to sendFinalReply, per run
    chatBroadcasts,       \* the `chat` messages with state final, per runId
    chatResponse,         \* what the last chat.send responded
    \* Part 6, cron lock
    lockChain,  \* the callers whose locked(...) block is chained on the lock; the head runs
    lockCalls,  \* the list / status / run invocations in flight, one record per caller
    \* Part 7, queue modes of one session
    qMsgs,         \* the inbound turns of the session: how each was routed and where it is
    qNext,         \* the number of the next inbound turn
    activeRun,     \* the handle of ACTIVE_EMBEDDED_RUNS for the session's sessionId
    followupQueue, \* the follow-up queue of the session's queue key
    draining,      \* a follow-up drain is scheduled or running
    \* Part 8, dispatch wrappers
    wrapArgv,     \* the argv under resolution
    wrapResult,   \* unwrapKnownDispatchWrapperInvocation(argv)
    wrapResolved, \* unwrapDispatchWrappersForResolution(argv)
    wrapShell,    \* extractShellWrapperCommand(argv)
    \* Part 9, attempt loop of runEmbeddedPiAgent
    authPc,            \* position of the run: idle, loop (top of while), prompting, returned, thrown
    authCfg,           \* what the run was called with: the profile order, whose key resolves, ...
    profileIndex,      \* index into profileCandidates, counted from 1
    thinkLevel,        \* the thinking level of the next attempt
    attemptedThinking, \* the levels attempted on the current profile
    lastProfileId,     \* the profile whose key is in use, 0 for undefined
    cooldownMarks,     \* the profiles markAuthProfileCooldown was called for
    goodMarks,         \* the profiles markAuthProfileGood was called for
    lastAttempt,       \* how the last attempt ended and what the loop did then
    attemptCount,            \* the attempts of the run so far (passes through the loop head)
    runHandleActive,         \* ACTIVE_EMBEDDED_RUNS has a handle for the run's sessionId
    runWaiter,               \* a call of waitForEmbeddedPiRunEnd: "none", "waiting", "true", "false"
    \* Part 10, hook stream wrapper
    hookWrapped,             \* wrapStreamFnWithHooks was called for the turn
    hookRegs,                \* the hook names hookRunner.hasHooks answers true for
    contextAssembledEmitted, \* the flag of the wrapper's closure
    llmCalls,                \* the calls of the wrapped StreamFn, in the order they were made
    \* Part 11, a turn of runReplyAgent: typing, compaction, session entry
    rtPc,                    \* position of the turn: idle, running (the agent runs), done
    rtCfg,                   \* what runReplyAgent was called with
    rtNow,                   \* Date.now()
    rtCallbacks,             \* the number of callbacks the agent has invoked
    rtExit,                  \* how the turn left runReplyAgent
    sessionEntry,            \* sessionStore[sessionKey]
    autoCompactionCompleted, \* the local variable of runReplyAgent
    compactionEndSeen,       \* the agent emitted compaction phase=end willRetry=false
    typingCalls,             \* the methods of the typing controller called so far
    typingArmed,             \* the typing loop is armed
    typingEverArmed,         \* the typing loop was armed at some point of the turn
    pendingBlockTasks,       \* the number of block-reply delivery tasks that have not settled
    pendingToolTasks,        \* the number of tool-result delivery tasks that have not settled
    \* Part 12, the reply of a run and the before_response_emit hook
    emitPc,                  \* "idle", "hook", "applied", "done"
    messagesSnapshot,        \* [hasAssistant, content]: the last assistant message
    assistantTexts,          \* the last of the assistant texts the reply is built from
    sessionMessage,          \* the content of the last message of activeSession
    emitResult,              \* what runBeforeResponseEmit settled with in this run
    emitReturned,            \* what applyBeforeResponseEmitHook returned
    emittedReply,            \* the text of the reply payload, "none" without one
    queuedFollowups,         \* the number of queued follow-up turns
    \* Part 13, a call of reconnectDelayMs
    rcPc,                    \* "idle", "done"
    rcAttempt,               \* the attempt argument
    rcOpts,                  \* the opts argument
    rcDelay                  \* the value returned

cronVars == <<now, store, nextId, calls, startPc, startSkip, missed, events, lastOp>>

execVars == <<execPc, execOpts, execPolicy, execRun, execEvents, execResult, execAllowlistUse>>

laneVars == <<turns, globalQueue>>

replyVars == <<replyPc, replyOpts, pendingStreamedPayloadKeys, streamedPayloadKeys, didStreamBlockReply, payloadArray, finalPayloads, failedPayloadKeys>>

chatVars == <<chatDedupe, chatAbortControllers, chatFinalParts, chatBroadcasts, chatResponse>>

lockVars == <<lockChain, lockCalls>>

queueVars == <<qMsgs, qNext, activeRun, followupQueue, draining>>

wrapVars == <<wrapArgv, wrapResult, wrapResolved, wrapShell>>

authVars == <<authPc, authCfg, profileIndex, thinkLevel, attemptedThinking, lastProfileId, cooldownMarks, goodMarks, lastAttempt, attemptCount, runHandleActive, runWaiter>>

hookVars == <<hookWrapped, hookRegs, contextAssembledEmitted, llmCalls>>

turnVars == <<rtPc, rtCfg, rtNow, rtCallbacks, rtExit, sessionEntry, autoCompactionCompleted, compactionEndSeen, typingCalls, typingArmed, typingEverArmed, pendingBlockTasks, pendingToolTasks>>

emitVars == <<emitPc, messagesSnapshot, assistantTexts, sessionMessage, emitResult, emitReturned, emittedReply, queuedFollowups>>

reconnectVars == <<rcPc, rcAttempt, rcOpts, rcDelay>>

laterVars == <<hookVars, turnVars, emitVars, reconnectVars>>

otherVars == <<queueVars, wrapVars, authVars, laterVars>>

vars == <<cronVars, execVars, laneVars, replyVars, chatVars, lockVars, otherVars>>

outsideCron == <<execVars, laneVars, replyVars, chatVars, lockVars, otherVars>>

outsideExec == <<cronVars, laneVars, replyVars, chatVars, lockVars, otherVars>>

outsideLanes == <<cronVars, execVars, replyVars, chatVars, lockVars, otherVars>>

outsideReply == <<cronVars, execVars, laneVars, chatVars, lockVars, otherVars>>

outsideChat == <<cronVars, execVars, laneVars, replyVars, lockVars, otherVars>>

outsideLock == <<cronVars, execVars, laneVars, replyVars, chatVars, otherVars>>

outsideQueue == <<cronVars, execVars, laneVars, replyVars, chatVars, lockVars, wrapVars, authVars, laterVars>>

outsideWrap == <<cronVars, execVars, laneVars, replyVars, chatVars, lockVars, queueVars, authVars, laterVars>>

outsideAuth == <<cronVars, execVars, laneVars, replyVars, chatVars, lockVars, queueVars, wrapVars, laterVars>>

earlierVars == <<cronVars, execVars, laneVars, replyVars, chatVars, lockVars, queueVars, wrapVars, authVars>>

outsideHook == <<earlierVars, turnVars, emitVars, reconnectVars>>

outsideTurn == <<earlierVars, hookVars, emitVars, reconnectVars>>

outsideEmit == <<earlierVars, hookVars, turnVars, reconnectVars>>

outsideReconnect == <<earlierVars, hookVars, turnVars, emitVars>>

-----------------------------------------------------------------------------
(* Bounds of the model *)

MaxNow == 1
MaxJobs == 2
MaxCallers == 2
MaxRuns == 2

(* `undefined` of an optional number field of CronJob.state *)
Undef == -1

JobIds == 1..MaxJobs
Callers == 1..MaxCallers
IsNum(x) == x # Undef

Max(a, b) == IF a >= b THEN a ELSE b

-----------------------------------------------------------------------------
(* Schedules and job inputs the operations are called with *)

EverySched(e, a) == [kind |-> "every", everyMs |-> e, anchorMs |-> a, atMs |-> Undef]
AtSched(t) == [kind |-> "at", everyMs |-> Undef, anchorMs |-> Undef, atMs |-> t]

InputSchedules == {EverySched(2, 0), AtSched(1)}

\* a patch may carry an `every` schedule without anchorMs
PatchSchedules == {EverySched(1, Undef)}

\* a field the patch does not carry (patch.enabled === undefined, patch.schedule === undefined)
NoEnabled == "unset"
NoSchedule == [kind |-> "unset", everyMs |-> Undef, anchorMs |-> Undef, atMs |-> Undef]
PatchEnabled == {NoEnabled, "true", "false"}

-----------------------------------------------------------------------------
(* service/jobs.ts, modelled from the specification *)

\* computeNextRunAtMs(schedule, now): every -> the first anchor + k*every >= now;
\* at -> ts if ts > now, else never.
computeNextRunAtMs(sched, nowMs) ==
    IF sched.kind = "at"
    THEN IF sched.atMs > nowMs THEN sched.atMs ELSE Undef
    ELSE IF nowMs <= sched.anchorMs
         THEN sched.anchorMs
         ELSE LET elapsed == nowMs - sched.anchorMs
                  steps == (elapsed + sched.everyMs - 1) \div sched.everyMs
              IN sched.anchorMs + steps * sched.everyMs

\* computeJobNextRunAtMs(job, now): never for a disabled job; a slot that was
\* already executed (lastRunAtMs) is not handed out again.
computeJobNextRunAtMs(job, nowMs) ==
    IF ~job.enabled THEN Undef
    ELSE IF job.schedule.kind = "every" /\ IsNum(job.state.lastRunAtMs)
         THEN computeNextRunAtMs(job.schedule, Max(nowMs, job.state.lastRunAtMs + 1))
         ELSE computeNextRunAtMs(job.schedule, nowMs)

\* the guard of recomputeNextRuns: a past-due slot that was never executed
IsPastDueUnexecuted(job, nowMs) ==
    /\ IsNum(job.state.nextRunAtMs)
    /\ job.state.nextRunAtMs <= nowMs
    /\ ~IsNum(job.state.runningAtMs)
    /\ (~IsNum(job.state.lastRunAtMs) \/ job.state.lastRunAtMs < job.state.nextRunAtMs)

SetState(job, field, value) == [job EXCEPT !.state = [@ EXCEPT ![field] = value]]

\* a faulty variant of recomputeJob: a past-due slot is advanced like any other
recomputeJobAlways(job, nowMs) ==
    IF ~job.enabled THEN job
    ELSE SetState(job, "nextRunAtMs", computeJobNextRunAtMs(job, nowMs))

\* recomputeNextRuns on one job
recomputeJob(job, nowMs) ==
    IF ~job.enabled THEN job
    ELSE IF IsPastDueUnexecuted(job, nowMs) THEN job
    ELSE SetState(job, "nextRunAtMs", computeJobNextRunAtMs(job, nowMs))

recomputeNextRuns(jobs, nowMs) ==
    [id \in DOMAIN jobs |-> recomputeJob(jobs[id], nowMs)]

\* recomputeNextRunsForMaintenance on one job: repairs a missing nextRunAtMs only
maintainJob(job, nowMs) ==
    IF job.enabled /\ ~IsNum(job.state.nextRunAtMs)
    THEN SetState(job, "nextRunAtMs", computeJobNextRunAtMs(job, nowMs))
    ELSE job

recomputeNextRunsForMaintenance(jobs, nowMs) ==
    [id \in DOMAIN jobs |-> maintainJob(jobs[id], nowMs)]

\* createJob(state, input)
createJob(id, enabled, sched, nowMs) ==
    LET anchored == IF sched.kind = "every" /\ ~IsNum(sched.anchorMs)
                    THEN [sched EXCEPT !.anchorMs = nowMs] ELSE sched
        fresh == [id |-> id, enabled |-> enabled, schedule |-> anchored,
                  state |-> [nextRunAtMs |-> Undef, lastRunAtMs |-> Undef,
                             runningAtMs |-> Undef]]
    IN SetState(fresh, "nextRunAtMs", computeJobNextRunAtMs(fresh, nowMs))

\* applyJobPatch(job, patch)
applyJobPatch(job, patchEnabled, patchSchedule) ==
    LET j1 == IF patchEnabled # NoEnabled
              THEN [job EXCEPT !.enabled = (patchEnabled = "true")] ELSE job
    IN IF patchSchedule # NoSchedule THEN [j1 EXCEPT !.schedule = patchSchedule] ELSE j1

\* isJobDue(job, now, {forced}): force bypasses the due-ness check
isJobDue(job, nowMs, forced) ==
    \/ forced
    \/ /\ job.enabled
       /\ IsNum(job.state.nextRunAtMs)
       /\ nowMs >= job.state.nextRunAtMs

\* applyJobResult(state, job, result): clears the running marker, records the
\* run and hands out the next slot; returns the job (shouldDelete is IsOneShot)
applyJobResult(job, startedAt, endedAt) ==
    LET j1 == SetState(SetState(job, "runningAtMs", Undef), "lastRunAtMs", startedAt)
    IN SetState(j1, "nextRunAtMs", computeJobNextRunAtMs(j1, endedAt))

IsOneShot(job) == job.schedule.kind = "at"

-----------------------------------------------------------------------------
(* Helpers on the model state *)

Without(jobs, id) == [k \in DOMAIN jobs \ {id} |-> jobs[k]]

With(jobs, id, job) == [k \in DOMAIN jobs \cup {id} |-> IF k = id THEN job ELSE jobs[k]]

Ev(kind, id, runAtMs) == [kind |-> kind, jobId |-> id, runAtMs |-> runAtMs]

CountKind(kind) == Cardinality({e \in events : e.kind = kind})

IdleCall == [pc |-> "idle", jobId |-> 0, startedAt |-> Undef]

Op(op, res) == [op |-> op, id |-> 0, res |-> res]

RunOp(id, res) == [op |-> "run", id |-> id, res |-> res]

-----------------------------------------------------------------------------
(* The persisted stores the service may find at construction: none, a healthy *)
(* job, or a job whose run was interrupted by a crash (stale running marker). *)

PersistedJob(next, last, running) ==
    [id |-> 1, enabled |-> TRUE, schedule |-> EverySched(2, 0),
     state |-> [nextRunAtMs |-> next, lastRunAtMs |-> last, runningAtMs |-> running]]

InitStores ==
    { <<>>,
      [k \in {1} |-> PersistedJob(2, 0, Undef)],
      [k \in {1} |-> PersistedJob(0, Undef, 0)] }

CronInit ==
    /\ now = 0
    /\ store \in InitStores
    /\ nextId = Cardinality(DOMAIN store) + 1
    /\ calls = [c \in Callers |-> IdleCall]
    /\ startPc = "idle"
    /\ startSkip = {}
    /\ missed = {}
    /\ events = {}
    /\ lastOp = Op("init", "none")

-----------------------------------------------------------------------------
(* service/ops.ts *)

\* the clock of deps.nowMs() advances
Tick ==
    /\ now < MaxNow
    /\ now' = now + 1
    /\ UNCHANGED <<store, nextId, calls, startPc, startSkip, missed, events, lastOp>>
    /\ UNCHANGED outsideCron

\* a faulty variant of ensureLoadedForRead: the read pass recomputes the next run
\* of every enabled job
ensureLoadedWithRecompute(op) ==
    /\ store' = [id \in DOMAIN store |-> recomputeJobAlways(store[id], now)]
    /\ lastOp' = Op(op, "none")
    /\ UNCHANGED <<now, nextId, calls, startPc, startSkip, missed, events>>
    /\ UNCHANGED outsideCron

\* ensureLoadedForRead under the lock: list() and status()
ensureLoadedForRead(op) ==
    /\ store' = recomputeNextRunsForMaintenance(store, now)
    /\ lastOp' = Op(op, "none")
    /\ UNCHANGED <<now, nextId, calls, startPc, startSkip, missed, events>>
    /\ UNCHANGED outsideCron

list == ensureLoadedForRead("list")

status == ensureLoadedForRead("status")

\* a faulty variant of add: the defensive recompute runs on a clock value read at
\* construction instead of nowMs()
addStaleClock(enabled, sched) ==
    /\ nextId <= MaxJobs
    /\ LET job == createJob(nextId, enabled, sched, now)
       IN store' = recomputeNextRuns(With(store, nextId, job), 0)
    /\ nextId' = nextId + 1
    /\ lastOp' = Op("add", "none")
    /\ UNCHANGED <<now, calls, startPc, startSkip, missed, events>>
    /\ UNCHANGED outsideCron

\* add(state, input)
add(enabled, sched) ==
    /\ nextId <= MaxJobs
    /\ LET job == createJob(nextId, enabled, sched, now)
       IN store' = recomputeNextRuns(With(store, nextId, job), now)
    /\ nextId' = nextId + 1
    /\ lastOp' = Op("add", "none")
    /\ UNCHANGED <<now, calls, startPc, startSkip, missed, events>>
    /\ UNCHANGED outsideCron

\* a faulty variant of updatedJob: a disabled job keeps its next run
updatedJobKeepsNextRun(job, patchEnabled, patchSchedule, nowMs) ==
    LET j1 == applyJobPatch(job, patchEnabled, patchSchedule)
    IN IF j1.enabled
       THEN SetState(j1, "nextRunAtMs", computeJobNextRunAtMs(j1, nowMs))
       ELSE SetState(j1, "runningAtMs", Undef)

\* the job after update(state, id, patch)
updatedJob(job, patchEnabled, patchSchedule, nowMs) ==
    LET j1 == applyJobPatch(job, patchEnabled, patchSchedule)
        \* every job the operations create has an anchor, so an `every` schedule
        \* lacks one only when the patch brought it: the fallback anchor is now
        j2 == IF j1.schedule.kind = "every" /\ ~IsNum(j1.schedule.anchorMs)
              THEN [j1 EXCEPT !.schedule.anchorMs = nowMs]
              ELSE j1
        scheduleChanged == patchSchedule # NoSchedule
        enabledChanged == patchEnabled # NoEnabled
    IN IF scheduleChanged \/ enabledChanged
       THEN IF j2.enabled
            THEN SetState(j2, "nextRunAtMs", computeJobNextRunAtMs(j2, nowMs))
            ELSE SetState(SetState(j2, "nextRunAtMs", Undef), "runningAtMs", Undef)
       ELSE IF j2.enabled /\ ~IsNum(j2.state.nextRunAtMs)
            THEN SetState(j2, "nextRunAtMs", computeJobNextRunAtMs(j2, nowMs))
            ELSE j2

update(id, patchEnabled, patchSchedule) ==
    /\ id \in DOMAIN store
    /\ store' = [store EXCEPT ![id] = updatedJob(store[id], patchEnabled, patchSchedule, now)]
    /\ lastOp' = Op("update", "none")
    /\ UNCHANGED <<now, nextId, calls, startPc, startSkip, missed, events>>
    /\ UNCHANGED outsideCron

\* remove(state, id)
remove(id) ==
    /\ id \in DOMAIN store
    /\ store' = Without(store, id)
    /\ lastOp' = Op("remove", "none")
    /\ UNCHANGED <<now, nextId, calls, startPc, startSkip, missed, events>>
    /\ UNCHANGED outsideCron

\* a faulty variant of startedEvent: the `started` event is not emitted
startedEventLost(id, nowMs) == {}

\* the `started` event run emits when it has reserved the run
startedEvent(id, nowMs) == {Ev("started", id, nowMs)}

\* a faulty variant of alreadyRunning: the running marker is not looked at
alreadyRunningIgnored(job) == FALSE

\* run: typeof job.state.runningAtMs === "number"
alreadyRunning(job) == IsNum(job.state.runningAtMs)

\* run: job.state.runningAtMs = now
reserveRun(job, nowMs) == SetState(job, "runningAtMs", nowMs)

\* run(state, id, mode), first locked block: reserve the run or refuse it
runPrepare(c, id, forced) ==
    /\ calls[c].pc = "idle"
    /\ id \in DOMAIN store
    /\ IF alreadyRunning(store[id])
       THEN /\ lastOp' = RunOp(id, "already-running")
            /\ UNCHANGED <<store, events, calls>>
       ELSE IF ~isJobDue(store[id], now, forced)
       THEN /\ lastOp' = RunOp(id, "not-due")
            /\ UNCHANGED <<store, events, calls>>
       ELSE /\ CountKind("started") < MaxRuns
            /\ store' = [store EXCEPT ![id] = reserveRun(@, now)]
            /\ events' = events \cup startedEvent(id, now)
            /\ calls' = [calls EXCEPT ![c] = [pc |-> "executing", jobId |-> id,
                                              startedAt |-> now]]
            /\ lastOp' = RunOp(id, "reserved")
    /\ UNCHANGED <<now, nextId, startPc, startSkip, missed>>
    /\ UNCHANGED outsideCron

\* a faulty variant of appliedStore: the second locked block returns before it
\* applies the result of the run
appliedStoreResultDropped(jobs, id, startedAt, endedAt, nowMs) ==
    recomputeNextRunsForMaintenance(jobs, nowMs)

\* the store and the events after the second locked block of run
appliedStore(jobs, id, startedAt, endedAt, nowMs) ==
    LET job == applyJobResult(jobs[id], startedAt, endedAt)
        kept == IF IsOneShot(job) THEN Without(jobs, id) ELSE [jobs EXCEPT ![id] = job]
    IN recomputeNextRunsForMaintenance(kept, nowMs)

appliedEvents(jobs, id, startedAt) ==
    {Ev("finished", id, startedAt)}

\* run: the job body, which ran outside the lock since runPrepare, ends
\* (endedAt = nowMs()) and the second locked block applies its result
runApply(c) ==
    /\ calls[c].pc = "executing"
    /\ LET id == calls[c].jobId
       IN IF id \notin DOMAIN store
          THEN UNCHANGED <<store, events>>
          ELSE /\ store' = appliedStore(store, id, calls[c].startedAt, now, now)
               /\ events' = events \cup appliedEvents(store, id, calls[c].startedAt)
    /\ calls' = [calls EXCEPT ![c] = IdleCall]
    /\ lastOp' = RunOp(calls[c].jobId, "ran")
    /\ UNCHANGED <<now, nextId, startPc, startSkip, missed>>
    /\ UNCHANGED outsideCron

\* a faulty variant of clearedStore: the stale markers are left in place
clearedStoreKeepsMarkers(jobs) ==
    jobs

\* start(), first locked block: clear the stale running markers
clearedStore(jobs) ==
    [id \in DOMAIN jobs |-> SetState(jobs[id], "runningAtMs", Undef)]

\* start() is the first call made on a constructed service (gateway boot)
startClear ==
    /\ startPc = "idle"
    /\ lastOp.op = "init"
    /\ startSkip' = {id \in DOMAIN store : IsNum(store[id].state.runningAtMs)}
    /\ store' = clearedStore(store)
    /\ startPc' = "missed"
    /\ lastOp' = Op("start", "cleared")
    /\ UNCHANGED <<now, nextId, calls, missed, events>>
    /\ UNCHANGED outsideCron

\* service/timer.ts runMissedJobs(state, {skipJobIds}), modelled from the
\* specification: every enabled job whose slot is past due is fired once
MissedJobIds(jobs, skip, nowMs) ==
    {id \in DOMAIN jobs \ skip :
        /\ jobs[id].enabled
        /\ ~IsNum(jobs[id].state.runningAtMs)
        /\ IsNum(jobs[id].state.nextRunAtMs)
        /\ jobs[id].state.nextRunAtMs <= nowMs}

runMissedJobsReserve ==
    /\ startPc = "missed"
    /\ LET ids == MissedJobIds(store, startSkip, now)
       IN /\ store' = [id \in DOMAIN store |->
                          IF id \in ids THEN SetState(store[id], "runningAtMs", now)
                          ELSE store[id]]
          /\ missed' = {[id |-> id, startedAt |-> now] : id \in ids}
          /\ events' = events \cup UNION {startedEvent(id, now) : id \in ids}
    /\ startPc' = "replay"
    /\ lastOp' = Op("start", "reserved")
    /\ UNCHANGED <<now, nextId, calls, startSkip>>
    /\ UNCHANGED outsideCron

runMissedJobsApply(m) ==
    /\ startPc = "replay"
    /\ m \in missed
    /\ IF m.id \notin DOMAIN store
       THEN UNCHANGED <<store, events>>
       ELSE /\ store' = appliedStore(store, m.id, m.startedAt, now, now)
            /\ events' = events \cup appliedEvents(store, m.id, m.startedAt)
    /\ missed' = missed \ {m}
    /\ lastOp' = Op("start", "replayed")
    /\ UNCHANGED <<now, nextId, calls, startPc, startSkip>>
    /\ UNCHANGED outsideCron

\* start(), last locked block: force reload, recomputeNextRuns, persist, armTimer
startFinish ==
    /\ startPc = "replay"
    /\ missed = {}
    /\ store' = recomputeNextRuns(store, now)
    /\ startPc' = "done"
    /\ lastOp' = Op("start", "started")
    /\ UNCHANGED <<now, nextId, calls, startSkip, missed, events>>
    /\ UNCHANGED outsideCron

-----------------------------------------------------------------------------
(* Part 2: node-host/invoke-system-run.ts                                    *)
(* The handler awaits the exec host and the command: it is one action up to  *)
(* each of these awaits.  evaluateSystemRunPolicy (node-host/exec-policy.ts) *)
(* is not part of the source tree at hand and is modelled from section 4.2   *)
(* of the specification and from exec-policy.test.ts.                        *)

Commands == {"invalid", "argv", "shell"}

Securities == {"deny", "allowlist", "full"}

Asks == {"off", "on-miss", "always"}

\* "none": resolveExecApprovalDecision gave null
ApprovalDecisions == {"none", "allow-once", "allow-always"}

\* allowlistEval.allowlistMatches by the pattern of each match; "" stands for a
\* match without a pattern
AllowlistMatches == {<<>>, <<"/bin/ls", "", "/bin/ls", "/bin/cat">>}

SystemRunOpts ==
    [command : Commands, security : Securities, ask : Asks,
     analysisOk : BOOLEAN, allowlistMatched : BOOLEAN, allowlistMatches : AllowlistMatches,
     approvalDecision : ApprovalDecisions, approved : BOOLEAN,
     needsScreenRecording : BOOLEAN, preferMacAppExecHost : BOOLEAN,
     execHostEnforced : BOOLEAN, execHostFallbackAllowed : BOOLEAN]

NoOpts ==
    [command |-> "invalid", security |-> "deny", ask |-> "off",
     analysisOk |-> FALSE, allowlistMatched |-> FALSE, allowlistMatches |-> <<>>,
     approvalDecision |-> "none", approved |-> FALSE,
     needsScreenRecording |-> FALSE, preferMacAppExecHost |-> FALSE,
     execHostEnforced |-> FALSE, execHostFallbackAllowed |-> FALSE]

\* what runViaMacAppExecHost resolves to: null, an error with or without a
\* reason, or the result of the run
ExecHostResponses ==
    {[kind |-> "null", reason |-> "unset", success |-> FALSE]}
    \cup {[kind |-> "error", reason |-> r, success |-> FALSE] : r \in {"unset", "user-denied"}}
    \cup {[kind |-> "ok", reason |-> "unset", success |-> ok] : ok \in BOOLEAN}

PolicyDecision(allowed, eventReason, approvedByAsk, analysisOk, allowlistSatisfied, shellWrapperBlocked) ==
    [allowed |-> allowed, eventReason |-> eventReason, approvedByAsk |-> approvedByAsk,
     analysisOk |-> analysisOk, allowlistSatisfied |-> allowlistSatisfied,
     shellWrapperBlocked |-> shellWrapperBlocked]

\* no decision: the handler returned before it evaluated the policy
NoPolicy == PolicyDecision(FALSE, "unevaluated", FALSE, FALSE, FALSE, FALSE)

evaluateSystemRunPolicy(security, ask, analysisOk, allowlistSatisfied, approvalDecision, approved, shellWrapperInvocation) ==
    LET shellWrapperBlocked == security = "allowlist" /\ shellWrapperInvocation
        okAnalysis == analysisOk /\ ~shellWrapperBlocked
        okAllowlist == allowlistSatisfied /\ ~shellWrapperBlocked
        approvedByAsk == approvalDecision # "none" \/ approved
        Decide(allowed, reason) ==
            PolicyDecision(allowed, reason, approvedByAsk, okAnalysis, okAllowlist,
                           shellWrapperBlocked)
    IN IF security = "deny" THEN Decide(FALSE, "security=deny")
       ELSE IF ask = "always" /\ ~approvedByAsk THEN Decide(FALSE, "approval-required")
       ELSE IF okAnalysis /\ okAllowlist THEN Decide(TRUE, "none")
       ELSE IF approvedByAsk THEN Decide(TRUE, "none")
       ELSE Decide(FALSE, "allowlist-miss")

\* sendNodeEvent(client, "exec.denied", {reason})
DeniedEvent(reason) == [event |-> "exec.denied", reason |-> reason, success |-> FALSE]

\* a faulty variant of sendExecFinishedEvent: a failed run is reported as denied
finishedAsDenied(success) ==
    IF success
    THEN {[event |-> "exec.finished", reason |-> "none", success |-> TRUE]}
    ELSE {DeniedEvent("failed")}

\* sendExecFinishedEvent({result})
sendExecFinishedEvent(success) ==
    {[event |-> "exec.finished", reason |-> "none", success |-> success]}

RunOutcome(success) == IF success THEN "success" ELSE "failure"

\* a faulty variant of systemRunPolicy: shellWrapperInvocation is not passed on
systemRunPolicyNoShellFlag(o) ==
    evaluateSystemRunPolicy(o.security, o.ask, o.analysisOk,
                            o.security = "allowlist" /\ o.analysisOk /\ o.allowlistMatched,
                            o.approvalDecision, o.approved, FALSE)

\* the policy call of the handler; allowlistSatisfied is
\* security === "allowlist" && analysisOk ? allowlistEval.allowlistSatisfied : false
systemRunPolicy(o) ==
    evaluateSystemRunPolicy(o.security, o.ask, o.analysisOk,
                            o.security = "allowlist" /\ o.analysisOk /\ o.allowlistMatched,
                            o.approvalDecision, o.approved, o.command = "shell")

\* a faulty variant of recordedPatterns: the first match only
recordedFirstPattern(matches) ==
    IF matches # <<>> /\ matches[1] # "" THEN <<matches[1]>> ELSE <<>>

\* the patterns the loop over allowlistMatches calls recordAllowlistUse with:
\* a match without a pattern and a pattern already seen are skipped
recordedPatterns(matches) ==
    SelectSeq([i \in 1..Len(matches) |->
                  IF matches[i] # "" /\ \A j \in 1..(i - 1) : matches[j] # matches[i]
                  THEN matches[i] ELSE ""],
              LAMBDA pattern : pattern # "")

ExecInit ==
    /\ execAllowlistUse = <<>>
    /\ execPc = "idle"
    /\ execOpts = NoOpts
    /\ execPolicy = NoPolicy
    /\ execRun = "none"
    /\ execEvents = {}
    /\ execResult = "none"

\* a faulty variant of deniedByPolicy: the decision of the policy is not looked at
deniedByPolicyIgnored(policy) == FALSE

\* the policy gate: exec.denied is sent and the handler returns
deniedByPolicy(policy) == ~policy.allowed

\* handleSystemRunInvoke up to the exec host call or the local run
handleSystemRunInvoke(o) ==
    /\ execPc = "idle"
    /\ execOpts' = o
    /\ execRun' = "none"
    /\ IF o.command = "invalid"
       THEN /\ execPolicy' = NoPolicy
            /\ execEvents' = {}
            /\ execResult' = "INVALID_REQUEST"
            /\ execPc' = "done"
       ELSE LET policy == systemRunPolicy(o)
            IN /\ execPolicy' = policy
               /\ IF deniedByPolicy(policy)
                  THEN /\ execEvents' = {DeniedEvent(policy.eventReason)}
                       /\ execResult' = "UNAVAILABLE"
                       /\ execPc' = "done"
                  ELSE /\ execEvents' = {}
                       /\ execResult' = "none"
                       /\ execPc' = IF o.preferMacAppExecHost THEN "host" ELSE "local"
    /\ UNCHANGED execAllowlistUse
    /\ UNCHANGED outsideExec

\* the exec host of the mac app answers (or cannot be reached)
runViaMacAppExecHost(response) ==
    /\ execPc = "host"
    /\ IF response.kind = "null"
       THEN IF execOpts.execHostEnforced \/ ~execOpts.execHostFallbackAllowed
            THEN /\ execEvents' = execEvents \cup {DeniedEvent("companion-unavailable")}
                 /\ execResult' = "UNAVAILABLE"
                 /\ execPc' = "done"
                 /\ UNCHANGED execRun
            ELSE /\ execPc' = "local"
                 /\ UNCHANGED <<execEvents, execResult, execRun>>
       ELSE IF response.kind = "error"
       THEN /\ execEvents' = execEvents \cup
                  {DeniedEvent(IF response.reason = "unset" THEN "approval-required"
                               ELSE response.reason)}
            /\ execResult' = "UNAVAILABLE"
            /\ execPc' = "done"
            /\ UNCHANGED execRun
       ELSE /\ execRun' = RunOutcome(response.success)
            /\ execEvents' = execEvents \cup sendExecFinishedEvent(response.success)
            /\ execResult' = "ok"
            /\ execPc' = "done"
    /\ UNCHANGED <<execOpts, execPolicy, execAllowlistUse>>
    /\ UNCHANGED outsideExec

\* the local path: the allowlist use is recorded, then the screen-recording
\* refusal, else runCommand and its result
runCommand(success) ==
    /\ execPc = "local"
    /\ execAllowlistUse' = execAllowlistUse \o recordedPatterns(execOpts.allowlistMatches)
    /\ IF execOpts.needsScreenRecording
       THEN /\ execEvents' = execEvents \cup {DeniedEvent("permission:screenRecording")}
            /\ execResult' = "UNAVAILABLE"
            /\ UNCHANGED execRun
       ELSE /\ execRun' = RunOutcome(success)
            /\ execEvents' = execEvents \cup sendExecFinishedEvent(success)
            /\ execResult' = "ok"
    /\ execPc' = "done"
    /\ UNCHANGED <<execOpts, execPolicy>>
    /\ UNCHANGED outsideExec

\* the invocation has returned; the node host takes the next request
systemRunReturns ==
    /\ execPc = "done"
    /\ execPc' = "idle"
    /\ execOpts' = NoOpts
    /\ execPolicy' = NoPolicy
    /\ execRun' = "none"
    /\ execEvents' = {}
    /\ execResult' = "none"
    /\ execAllowlistUse' = <<>>
    /\ UNCHANGED outsideExec

ExecNext ==
    \/ \E o \in SystemRunOpts : handleSystemRunInvoke(o)
    \/ \E response \in ExecHostResponses : runViaMacAppExecHost(response)
    \/ \E success \in BOOLEAN : runCommand(success)
    \/ systemRunReturns

-----------------------------------------------------------------------------
(* Part 3: agents/pi-embedded-runner.ts, the lanes of runEmbeddedPiAgent      *)
(* A string is a sequence of tokens: " ", the prefix "session:", or a name.  *)
(* enqueueCommandInLane (process/command-queue.ts) is not part of the source *)
(* tree at hand: a lane is modelled from section 5 of the specification as a *)
(* FIFO queue that runs at most its cap of tasks at a time.                  *)

MaxTurns == 3
MaxConcurrent == 2

RECURSIVE TrimStart(_)
TrimStart(s) == IF s # <<>> /\ Head(s) = " " THEN TrimStart(Tail(s)) ELSE s

RECURSIVE TrimEnd(_)
TrimEnd(s) ==
    IF s # <<>> /\ s[Len(s)] = " " THEN TrimEnd(SubSeq(s, 1, Len(s) - 1)) ELSE s

\* String.prototype.trim
Trim(s) == TrimEnd(TrimStart(s))

\* params.sessionKey (<<>> when it is not given) and params.sessionId
SessionKeys == {<<>>, <<"a">>, <<" ", "a">>, <<"session:", "a">>, <<"b">>}

SessionIds == {<<"s1">>, <<"s2">>}

resolveSessionLane(key) ==
    LET cleaned == IF Trim(key) # <<>> THEN Trim(key) ELSE <<"main">>
    IN IF Head(cleaned) = "session:" THEN cleaned ELSE <<"session:">> \o cleaned

\* a faulty variant of sessionLaneOf: the lane is taken from the session id
sessionLaneById(sessionKey, sessionId) == resolveSessionLane(sessionId)

\* resolveSessionLane(params.sessionKey?.trim() || params.sessionId)
sessionLaneOf(sessionKey, sessionId) ==
    resolveSessionLane(IF Trim(sessionKey) # <<>> THEN Trim(sessionKey) ELSE sessionId)

\* a turn holds its session lane from the moment the lane starts its task
\* until the task's promise has settled
ActivePcs == {"global-queued", "running", "finishing"}

LaneState(ts, gq) == [turns |-> ts, gq |-> gq]

\* the global lane starts its next task when it has room
drainGlobal(ts, gq) ==
    IF gq # <<>> /\ Cardinality({i \in DOMAIN ts : ts[i].pc = "running"}) < MaxConcurrent
    THEN LaneState([ts EXCEPT ![Head(gq)].pc = "running"], Tail(gq))
    ELSE LaneState(ts, gq)

\* a session lane starts its oldest queued task when no task of it is active;
\* the task enqueues the run on the global lane
drainSession(ts, gq, lane) ==
    LET queued == {i \in DOMAIN ts : ts[i].lane = lane /\ ts[i].pc = "queued"}
        busy == \E i \in DOMAIN ts : ts[i].lane = lane /\ ts[i].pc \in ActivePcs
    IN IF ~busy /\ queued # {}
       THEN LET t == CHOOSE i \in queued : \A j \in queued : i <= j
            IN drainGlobal([ts EXCEPT ![t].pc = "global-queued"], Append(gq, t))
       ELSE LaneState(ts, gq)

LaneInit ==
    /\ turns = <<>>
    /\ globalQueue = <<>>

\* runEmbeddedPiAgent(params): enqueueCommandInLane(sessionLane, () => enqueueGlobal(...))
runEmbeddedPiAgent(sessionKey, sessionId) ==
    /\ Len(turns) < MaxTurns
    /\ LET lane == sessionLaneOf(sessionKey, sessionId)
           turn == [sessionKey |-> sessionKey, sessionId |-> sessionId,
                    lane |-> lane, pc |-> "queued"]
           next == drainSession(Append(turns, turn), globalQueue, lane)
       IN /\ turns' = next.turns
          /\ globalQueue' = next.gq
    /\ UNCHANGED outsideLanes

\* the run of a turn ends: the global lane is free for its next task
turnEnds(t) ==
    /\ t \in DOMAIN turns
    /\ turns[t].pc = "running"
    /\ LET next == drainGlobal([turns EXCEPT ![t].pc = "finishing"], globalQueue)
       IN /\ turns' = next.turns
          /\ globalQueue' = next.gq
    /\ UNCHANGED outsideLanes

\* the task of the session lane settles: the lane starts its next task
sessionLaneFrees(t) ==
    /\ t \in DOMAIN turns
    /\ turns[t].pc = "finishing"
    /\ LET next == drainSession([turns EXCEPT ![t].pc = "done"], globalQueue, turns[t].lane)
       IN /\ turns' = next.turns
          /\ globalQueue' = next.gq
    /\ UNCHANGED outsideLanes

LaneNext ==
    \/ \E sessionKey \in SessionKeys, sessionId \in SessionIds :
          runEmbeddedPiAgent(sessionKey, sessionId)
    \/ \E t \in 1..MaxTurns : turnEnds(t)
    \/ \E t \in 1..MaxTurns : sessionLaneFrees(t)

-----------------------------------------------------------------------------
(* Part 4: auto-reply/reply/agent-runner.ts, runReplyAgent                    *)
(* A payload is its text; the embedded agent is the environment: it streams  *)
(* blocks, then returns its payloads or throws.                              *)

BlockTexts == {"hi", "done", "NO_REPLY"}

FinalTexts == {"hi", "extra"}

SILENT_REPLY_TOKEN == "NO_REPLY"

\* the text of the payload the catch block returns
AgentFailedText == "Agent failed before reply"

ReplyOpts == [blockStreamingEnabled : BOOLEAN, onBlockReply : BOOLEAN]

ReplyInit ==
    /\ replyPc = "idle"
    /\ replyOpts = [blockStreamingEnabled |-> FALSE, onBlockReply |-> FALSE]
    /\ pendingStreamedPayloadKeys = {}
    /\ streamedPayloadKeys = {}
    /\ didStreamBlockReply = FALSE
    /\ payloadArray = {}
    /\ finalPayloads = {}
    /\ failedPayloadKeys = {}

\* runReplyAgent is called and starts the embedded agent
runReplyAgent(o) ==
    /\ replyPc = "idle"
    /\ pendingStreamedPayloadKeys = {}
    /\ replyPc' = "running"
    /\ replyOpts' = o
    /\ streamedPayloadKeys' = {}
    /\ didStreamBlockReply' = FALSE
    /\ payloadArray' = {}
    /\ finalPayloads' = {}
    /\ failedPayloadKeys' = {}
    /\ UNCHANGED pendingStreamedPayloadKeys
    /\ UNCHANGED outsideReply

\* the onBlockReply callback handed to the agent, called with a block
onBlockReply(text) ==
    /\ replyPc = "running"
    /\ replyOpts.blockStreamingEnabled /\ replyOpts.onBlockReply
    /\ text # SILENT_REPLY_TOKEN
    /\ text \notin streamedPayloadKeys \cup pendingStreamedPayloadKeys
    /\ pendingStreamedPayloadKeys' = pendingStreamedPayloadKeys \cup {text}
    /\ UNCHANGED <<replyPc, replyOpts, streamedPayloadKeys, didStreamBlockReply,
                   payloadArray, finalPayloads>>
    /\ UNCHANGED failedPayloadKeys
    /\ UNCHANGED outsideReply

\* opts.onBlockReply(blockPayload) resolves: .then and .finally of the task
blockDelivered(text) ==
    /\ text \in pendingStreamedPayloadKeys
    /\ streamedPayloadKeys' = streamedPayloadKeys \cup {text}
    /\ didStreamBlockReply' = TRUE
    /\ pendingStreamedPayloadKeys' = pendingStreamedPayloadKeys \ {text}
    /\ failedPayloadKeys' = failedPayloadKeys \ {text}
    /\ UNCHANGED <<replyPc, replyOpts, payloadArray, finalPayloads>>
    /\ UNCHANGED outsideReply

\* opts.onBlockReply(blockPayload) rejects: .catch and .finally of the task
blockDeliveryFailed(text) ==
    /\ text \in pendingStreamedPayloadKeys
    /\ pendingStreamedPayloadKeys' = pendingStreamedPayloadKeys \ {text}
    /\ failedPayloadKeys' = failedPayloadKeys \cup {text}
    /\ UNCHANGED <<replyPc, replyOpts, streamedPayloadKeys, didStreamBlockReply,
                   payloadArray, finalPayloads>>
    /\ UNCHANGED outsideReply

\* runWithModelFallback resolves with runResult
agentReturns(payloads) ==
    /\ replyPc = "running"
    /\ replyPc' = "draining"
    /\ payloadArray' = payloads
    /\ UNCHANGED <<replyOpts, pendingStreamedPayloadKeys, streamedPayloadKeys,
                   didStreamBlockReply, finalPayloads>>
    /\ UNCHANGED failedPayloadKeys
    /\ UNCHANGED outsideReply

\* runWithModelFallback rejects: the catch block returns the failure text
agentThrows ==
    /\ replyPc = "running"
    /\ replyPc' = "returned"
    /\ finalPayloads' = {AgentFailedText}
    /\ UNCHANGED <<replyOpts, pendingStreamedPayloadKeys, streamedPayloadKeys,
                   didStreamBlockReply, payloadArray>>
    /\ UNCHANGED failedPayloadKeys
    /\ UNCHANGED outsideReply

\* a faulty variant of filteredPayloads: with block streaming nothing is returned
filteredPayloadsNoneWhenStreaming(o, didStream, streamed, payloads) ==
    IF o.blockStreamingEnabled THEN {} ELSE payloads

\* the payloads runReplyAgent returns after a run that resolved
filteredPayloads(o, didStream, streamed, payloads) ==
    LET shouldDropFinalPayloads == o.blockStreamingEnabled /\ didStream
    IN IF shouldDropFinalPayloads THEN {}
       ELSE IF o.blockStreamingEnabled THEN payloads \ streamed
       ELSE payloads

\* the pending block tasks have settled: the final payloads are decided
finalizeReply ==
    /\ replyPc = "draining"
    /\ pendingStreamedPayloadKeys = {}
    /\ replyPc' = "returned"
    /\ finalPayloads' = filteredPayloads(replyOpts, didStreamBlockReply,
                                         streamedPayloadKeys, payloadArray)
    /\ UNCHANGED <<replyOpts, pendingStreamedPayloadKeys, streamedPayloadKeys,
                   didStreamBlockReply, payloadArray>>
    /\ UNCHANGED failedPayloadKeys
    /\ UNCHANGED outsideReply

\* the caller has taken the payloads; the next turn may start
replyTaken ==
    /\ replyPc = "returned"
    /\ replyPc' = "idle"
    /\ UNCHANGED <<replyOpts, pendingStreamedPayloadKeys, streamedPayloadKeys,
                   didStreamBlockReply, payloadArray, finalPayloads>>
    /\ UNCHANGED failedPayloadKeys
    /\ UNCHANGED outsideReply

ReplyNext ==
    \/ \E o \in ReplyOpts : runReplyAgent(o)
    \/ \E text \in BlockTexts : onBlockReply(text)
    \/ \E text \in BlockTexts : blockDelivered(text)
    \/ \E text \in BlockTexts : blockDeliveryFailed(text)
    \/ \E payloads \in SUBSET FinalTexts : agentReturns(payloads)
    \/ agentThrows
    \/ finalizeReply
    \/ replyTaken

-----------------------------------------------------------------------------
(* Part 5: the chat.send handler of the gateway (server-methods/chat.ts)      *)
(* The handler is not part of the source tree at hand.  It is modelled from  *)
(* sections 5 and 8 (P1) of the specification and from the handler's test,   *)
(* whose context carries the dedupe map and the abort controllers of the     *)
(* runs in flight and whose dispatcher passes the final reply texts.  A text *)
(* is a sequence of tokens, a directive tag being one token.                 *)

MaxParts == 2
MaxBroadcasts == 2

ChatKeys == {"k1", "k2"}

ReplyTokens == {"hi", "[[reply_to_current]]"}

\* the directive tags are stripped from the text of the final message
stripDirectiveTags(text) == SelectSeq(text, LAMBDA tok : tok # "[[reply_to_current]]")

\* a faulty variant of isDuplicateSend: the idempotency key is not looked up
isDuplicateSendNever(key) == FALSE

\* a chat.send whose idempotency key has a recorded outcome or a run in flight
isDuplicateSend(key) == key \in chatDedupe \/ key \in chatAbortControllers

ChatFinal(key, text) == [runId |-> key, state |-> "final", text |-> text]

ChatInit ==
    /\ chatDedupe = {}
    /\ chatAbortControllers = {}
    /\ chatFinalParts = [k \in ChatKeys |-> <<>>]
    /\ chatBroadcasts = [k \in ChatKeys |-> <<>>]
    /\ chatResponse = [runId |-> "none", status |-> "none"]

\* chatHandlers["chat.send"]({params: {idempotencyKey}}) up to the dispatch
chatSend(key) ==
    /\ IF isDuplicateSend(key)
       THEN /\ chatResponse' = [runId |-> key,
                                status |-> IF key \in chatDedupe THEN "cached" ELSE "in_flight"]
            /\ UNCHANGED chatAbortControllers
       ELSE /\ chatAbortControllers' = chatAbortControllers \cup {key}
            /\ chatResponse' = [runId |-> key, status |-> "started"]
    /\ UNCHANGED <<chatDedupe, chatFinalParts, chatBroadcasts>>
    /\ UNCHANGED outsideChat

\* the dispatcher of the run calls sendFinalReply({text})
sendFinalReply(key, tok) ==
    /\ key \in chatAbortControllers
    /\ Len(chatFinalParts[key]) < MaxParts
    /\ chatFinalParts' = [chatFinalParts EXCEPT ![key] = Append(@, tok)]
    /\ UNCHANGED <<chatDedupe, chatAbortControllers, chatBroadcasts, chatResponse>>
    /\ UNCHANGED outsideChat

\* dispatchInboundMessage resolves: the final message is broadcast and the
\* outcome recorded under the idempotency key
dispatchCompletes(key) ==
    /\ key \in chatAbortControllers
    /\ Len(chatBroadcasts[key]) < MaxBroadcasts
    /\ chatBroadcasts' = [chatBroadcasts EXCEPT
           ![key] = Append(@, ChatFinal(key, stripDirectiveTags(chatFinalParts[key])))]
    /\ chatDedupe' = chatDedupe \cup {key}
    /\ chatAbortControllers' = chatAbortControllers \ {key}
    /\ chatFinalParts' = [chatFinalParts EXCEPT ![key] = <<>>]
    /\ UNCHANGED chatResponse
    /\ UNCHANGED outsideChat

ChatNext ==
    \/ \E key \in ChatKeys : chatSend(key)
    \/ \E key \in ChatKeys, tok \in ReplyTokens : sendFinalReply(key, tok)
    \/ \E key \in ChatKeys : dispatchCompletes(key)

-----------------------------------------------------------------------------
(* Part 6: the cron lock (service/locked.ts) as service/ops.ts uses it.      *)
(* locked(state, fn) chains fn behind the blocks chained before it: the      *)
(* block at the head of the chain runs, and the lock passes on when it       *)
(* returns.  locked.ts is not part of the source tree at hand; the chain is  *)
(* modelled from sections 4.3 and 5 of the specification, the places where   *)
(* list, status and run enter and leave a block are those of ops.ts.         *)

MaxLockCallers == 3

LockCallers == 1..MaxLockCallers

LockOps == {"list", "status", "run"}

IdleLockCall == [pc |-> "idle", op |-> "none", bodies |-> {}]

\* the caller whose block holds the lock, 0 when the lock is free
lockOwner == IF lockChain = <<>> THEN 0 ELSE Head(lockChain)

\* the run() invocations whose job body is executing
BodiesExecuting == {c \in LockCallers : lockCalls[c].pc = "body"}

LockInit ==
    /\ lockChain = <<>>
    /\ lockCalls = [c \in LockCallers |-> IdleLockCall]

\* list, status or run is called: its first locked block is chained
cronCall(c, op) ==
    /\ lockCalls[c].pc = "idle"
    /\ lockChain' = Append(lockChain, c)
    /\ lockCalls' = [lockCalls EXCEPT ![c] = [pc |-> "locked", op |-> op,
                                              bodies |-> BodiesExecuting]]
    /\ UNCHANGED outsideLock

\* the locked block of list or status returns
readReturns(c) ==
    /\ lockOwner = c
    /\ lockCalls[c].op \in {"list", "status"}
    /\ lockChain' = Tail(lockChain)
    /\ lockCalls' = [lockCalls EXCEPT ![c].pc = "done"]
    /\ UNCHANGED outsideLock

\* run: the first locked block returns {ran: false} and run returns it
runRefused(c) ==
    /\ lockOwner = c
    /\ lockCalls[c].op = "run"
    /\ lockCalls[c].pc = "locked"
    /\ lockChain' = Tail(lockChain)
    /\ lockCalls' = [lockCalls EXCEPT ![c].pc = "done"]
    /\ UNCHANGED outsideLock

\* a faulty variant of runReserved: the job body is awaited inside the first
\* locked block
runReservedKeepsLock(c) ==
    /\ lockOwner = c
    /\ lockCalls[c].op = "run"
    /\ lockCalls[c].pc = "locked"
    /\ lockCalls' = [lockCalls EXCEPT ![c].pc = "body"]
    /\ UNCHANGED lockChain
    /\ UNCHANGED outsideLock

\* run: the first locked block has reserved the run and returns; the job body
\* (executeJobCoreWithTimeout) is awaited after it
runReserved(c) ==
    /\ lockOwner = c
    /\ lockCalls[c].op = "run"
    /\ lockCalls[c].pc = "locked"
    /\ lockChain' = Tail(lockChain)
    /\ lockCalls' = [lockCalls EXCEPT ![c].pc = "body"]
    /\ UNCHANGED outsideLock

\* run: the job body ends and the second locked block is chained
bodyEnds(c) ==
    /\ lockCalls[c].pc = "body"
    /\ lockChain' = Append(lockChain, c)
    /\ lockCalls' = [lockCalls EXCEPT ![c].pc = "applying"]
    /\ UNCHANGED outsideLock

\* run: the second locked block returns
runApplied(c) ==
    /\ lockOwner = c
    /\ lockCalls[c].pc = "applying"
    /\ lockChain' = Tail(lockChain)
    /\ lockCalls' = [lockCalls EXCEPT ![c].pc = "done"]
    /\ UNCHANGED outsideLock

\* the caller takes the result
lockCallReturns(c) ==
    /\ lockCalls[c].pc = "done"
    /\ lockCalls' = [lockCalls EXCEPT ![c] = IdleLockCall]
    /\ UNCHANGED lockChain
    /\ UNCHANGED outsideLock

LockNext ==
    \/ \E c \in LockCallers, op \in LockOps : cronCall(c, op)
    \/ \E c \in LockCallers : readReturns(c)
    \/ \E c \in LockCallers : runRefused(c)
    \/ \E c \in LockCallers : runReserved(c)
    \/ \E c \in LockCallers : bodyEnds(c)
    \/ \E c \in LockCallers : runApplied(c)
    \/ \E c \in LockCallers : lockCallReturns(c)

-----------------------------------------------------------------------------
(* Part 7: the queue modes of one session.  runReplyAgent (agent-runner.ts)  *)
(* receives shouldSteer, shouldFollowup, isActive and isStreaming from its   *)
(* caller and routes the turn; queueEmbeddedPiMessage and abortEmbeddedPiRun *)
(* (pi-embedded-runner.ts) act on the handle of the active run.  The caller  *)
(* (it resolves the queue mode into the four flags, aborts on interrupt and  *)
(* discards on drop) and the follow-up queue (reply/queue.ts) are not part   *)
(* of the source tree at hand and are modelled from section 4.6 of the       *)
(* specification.                                                            *)

MaxMsgs == 3

MsgIds == 1..MaxMsgs

QueueModes == {"interrupt", "steer", "followup", "drop"}

TurnOutcomes == {"reply", "empty", "suppressed", "failed"}

NoRun == [msg |-> 0, streaming |-> FALSE, compacting |-> FALSE, aborted |-> FALSE]

NoArrival == [active |-> FALSE, streaming |-> FALSE, compacting |-> FALSE, prior |-> 0]

NoMsg == [mode |-> "none", route |-> "none", state |-> "none", outcome |-> "none", aborted |-> FALSE, arrival |-> NoArrival]

\* queueEmbeddedPiMessage(sessionId, text): TRUE when the text was handed to
\* handle.queueMessage
queueEmbeddedPiMessage(run) ==
    IF run.msg = 0 THEN FALSE
    ELSE IF ~run.streaming THEN FALSE
    ELSE IF run.compacting THEN FALSE
    ELSE TRUE

\* a faulty variant of abortEmbeddedPiRun: handle.abort() is not called
abortEmbeddedPiRunNoAbort(run) ==
    run

\* abortEmbeddedPiRun(sessionId): the handle after the call
abortEmbeddedPiRun(run) ==
    IF run.msg = 0 THEN run ELSE [run EXCEPT !.aborted = TRUE]

isEmbeddedPiRunActive(run) == run.msg # 0

isEmbeddedPiRunStreaming(run) == IF run.msg = 0 THEN FALSE ELSE run.streaming

\* the flags the caller of runReplyAgent resolves from the queue mode
shouldSteerOf(mode) == mode = "steer"

shouldFollowupOf(mode) == mode = "followup"

\* a faulty variant of discardsInbound: no turn is discarded
discardsNever(mode, isActive) ==
    FALSE

\* drop mode: the caller discards a turn that arrives during an active run
discardsInbound(mode, isActive) ==
    mode = "drop" /\ isActive

\* interrupt mode: the caller aborts the run that is streaming
abortsPrior(mode, isStreaming) ==
    mode = "interrupt" /\ isStreaming

\* a faulty variant of replyRoute: only shouldFollowup enqueues
replyRouteNoSteerFallback(mode, shouldSteer, shouldFollowup, isActive, isStreaming, run) ==
    IF shouldSteer /\ isStreaming /\ queueEmbeddedPiMessage(run) /\ ~shouldFollowup
    THEN "steered"
    ELSE IF isActive /\ shouldFollowup
    THEN "followup"
    ELSE "fresh"

\* runReplyAgent, until it either returns undefined or goes on to run the agent
replyRoute(mode, shouldSteer, shouldFollowup, isActive, isStreaming, run) ==
    IF shouldSteer /\ isStreaming /\ queueEmbeddedPiMessage(run) /\ ~shouldFollowup
    THEN "steered"
    ELSE IF isActive /\ (shouldFollowup \/ mode = "steer")
    THEN "followup"
    ELSE "fresh"

\* a faulty variant of schedulesDrain: only a turn that returns payloads
\* schedules the drain
schedulesDrainOnReply(outcome) ==
    outcome = "reply"

\* runReplyAgent: the exits that go through finalizeWithFollowup
schedulesDrain(outcome) ==
    CASE outcome = "failed" -> TRUE
      [] outcome = "empty" -> TRUE
      [] outcome = "suppressed" -> TRUE
      [] outcome = "reply" -> TRUE

QueueInit ==
    /\ qMsgs = [m \in MsgIds |-> NoMsg]
    /\ qNext = 1
    /\ activeRun = NoRun
    /\ followupQueue = <<>>
    /\ draining = FALSE

\* an inbound turn of the session arrives under a queue mode
dispatchInbound(mode) ==
    /\ qNext <= MaxMsgs
    /\ qNext' = qNext + 1
    /\ UNCHANGED draining
    /\ LET m == qNext
           isActive == isEmbeddedPiRunActive(activeRun)
           isStreaming == isEmbeddedPiRunStreaming(activeRun)
           arrival == [active |-> isActive, streaming |-> isStreaming,
                       compacting |-> activeRun.compacting, prior |-> activeRun.msg]
           run == IF abortsPrior(mode, isStreaming)
                  THEN abortEmbeddedPiRun(activeRun) ELSE activeRun
           route == IF discardsInbound(mode, isActive) THEN "dropped"
                    ELSE replyRoute(mode, shouldSteerOf(mode), shouldFollowupOf(mode),
                                    isActive, isStreaming, run)
           state == CASE route = "dropped" -> "dropped"
                      [] route = "steered" -> "steered"
                      [] route = "followup" -> "enqueued"
                      [] route = "fresh" -> "waiting"
       IN /\ qMsgs' = [qMsgs EXCEPT ![m] = [NoMsg EXCEPT !.mode = mode, !.route = route,
                                                        !.state = state, !.arrival = arrival]]
          /\ activeRun' = run
          /\ followupQueue' = IF route = "followup" THEN Append(followupQueue, m)
                              ELSE followupQueue
    /\ UNCHANGED outsideQueue

\* runEmbeddedPiAgent of a fresh turn leaves the session lane and registers its handle
turnStarts(m) ==
    /\ qMsgs[m].state = "waiting"
    /\ activeRun.msg = 0
    /\ activeRun' = [NoRun EXCEPT !.msg = m]
    /\ qMsgs' = [qMsgs EXCEPT ![m].state = "running"]
    /\ UNCHANGED <<qNext, followupQueue, draining>>
    /\ UNCHANGED outsideQueue

\* session.isStreaming turns true / subscription.isCompacting() changes
streamBegins ==
    /\ activeRun.msg # 0
    /\ ~activeRun.streaming
    /\ activeRun' = [activeRun EXCEPT !.streaming = TRUE]
    /\ UNCHANGED <<qMsgs, qNext, followupQueue, draining>>
    /\ UNCHANGED outsideQueue

compactionToggles ==
    /\ activeRun.msg # 0
    /\ activeRun.streaming
    /\ activeRun' = [activeRun EXCEPT !.compacting = ~@]
    /\ UNCHANGED <<qMsgs, qNext, followupQueue, draining>>
    /\ UNCHANGED outsideQueue

\* the active run ends: its handle is deleted; a turn of runReplyAgent leaves
\* through finalizeWithFollowup, a follow-up turn returns to the drain
runEnds(outcome) ==
    /\ activeRun.msg # 0
    /\ LET m == activeRun.msg
       IN /\ qMsgs' = [qMsgs EXCEPT ![m].state = "done", ![m].outcome = outcome,
                                    ![m].aborted = activeRun.aborted]
          /\ draining' = IF qMsgs[m].route = "fresh"
                         THEN draining \/ (schedulesDrain(outcome) /\ followupQueue # <<>>)
                         ELSE followupQueue # <<>>
    /\ activeRun' = NoRun
    /\ UNCHANGED <<qNext, followupQueue>>
    /\ UNCHANGED outsideQueue

\* the drain takes the next queued turn and runs it
drainNext ==
    /\ draining
    /\ activeRun.msg = 0
    /\ followupQueue # <<>>
    /\ LET m == Head(followupQueue)
       IN /\ qMsgs' = [qMsgs EXCEPT ![m].state = "running"]
          /\ activeRun' = [NoRun EXCEPT !.msg = m]
    /\ followupQueue' = Tail(followupQueue)
    /\ UNCHANGED <<qNext, draining>>
    /\ UNCHANGED outsideQueue

QueueNext ==
    \/ \E mode \in QueueModes : dispatchInbound(mode)
    \/ \E m \in MsgIds : turnStarts(m)
    \/ streamBegins
    \/ compactionToggles
    \/ \E outcome \in TurnOutcomes : runEnds(outcome)
    \/ drainNext

-----------------------------------------------------------------------------
(* Part 8: infra/exec-wrapper-resolution.ts.  A token is a string; what the  *)
(* source finds out about a token with basename, toLowerCase, startsWith or  *)
(* a regular expression is tabulated for the tokens of WrapTokens.  A null   *)
(* argv is the empty sequence: the source never returns an empty slice.      *)

MaxArgvLen == 3

MAX_DISPATCH_WRAPPER_DEPTH == 4

WrapTokens ==
    {"", "sudo", "/usr/bin/doas", "CHRT.EXE", "ionice", "setsid", "taskset",
     "env", "nice", "nohup", "stdbuf", "timeout",
     "--", "-i", "-n", "-k", "--help", "FOO=1", "5", "ls"}

Argvs == UNION {[1..k -> WrapTokens] : k \in 0..MaxArgvLen}

MaxNesting == 5

\* k dispatch wrappers, one in front of the other
WrapperChains == UNION {[1..k -> {"env", "nohup", "nice"}] : k \in 0..MaxNesting}

\* a shell with an inline command, a shell without one, a plain command
ShellArgvs == {<<"bash", "-c", "id">>, <<"bash", "--", "-c">>, <<"bash">>, <<"ls", "-c", "id">>}

\* a command under a chain of dispatch wrappers
NestedArgvs == {chain \o argv : chain \in WrapperChains, argv \in ShellArgvs}

NullArgv == <<>>

\* basenameLower(token)
basenameLower(token) ==
    CASE token = "/usr/bin/doas" -> "doas"
      [] token = "CHRT.EXE" -> "chrt.exe"
      [] OTHER -> token

stripWindowsExeSuffix(value) ==
    IF value = "chrt.exe" THEN "chrt" ELSE value

normalizeExecutableToken(token) == stripWindowsExeSuffix(basenameLower(token))

isEnvAssignment(token) == token = "FOO=1"

\* token.startsWith("-")
StartsWithDash(token) == token \in {"--", "-i", "-n", "-k", "--help", "-c"}

ENV_OPTIONS_WITH_VALUE == {"-u", "--unset", "-c", "--chdir", "-s", "--split-string", "--default-signal", "--ignore-signal", "--block-signal"}

ENV_FLAG_OPTIONS == {"-i", "--ignore-environment", "-0", "--null"}

NICE_OPTIONS_WITH_VALUE == {"-n", "--adjustment", "--priority"}

STDBUF_OPTIONS_WITH_VALUE == {"-i", "--input", "-o", "--output", "-e", "--error"}

TIMEOUT_FLAG_OPTIONS == {"--foreground", "--preserve-status", "-v", "--verbose"}

TIMEOUT_OPTIONS_WITH_VALUE == {"-k", "--kill-after", "-s", "--signal"}

\* the separators each unwrap...Invocation hands to scanWrapperInvocation
WrapperSeparators(wrapper) == IF wrapper = "env" THEN {"--", "-"} ELSE {"--"}

\* the onToken callback of each unwrap...Invocation; no token of WrapTokens
\* holds "=", matches /^-\d+$/ or extends -u, -c, -s or -n
onToken(wrapper, token) ==
    IF wrapper = "env" /\ isEnvAssignment(token) THEN "continue"
    ELSE IF ~StartsWithDash(token) \/ token = "-" THEN "stop"
    ELSE CASE wrapper = "env" ->
                IF token \in ENV_FLAG_OPTIONS THEN "continue"
                ELSE IF token \in ENV_OPTIONS_WITH_VALUE THEN "consume-next"
                ELSE "invalid"
           [] wrapper = "nice" ->
                IF token \in NICE_OPTIONS_WITH_VALUE THEN "consume-next" ELSE "invalid"
           [] wrapper = "nohup" ->
                IF token \in {"--help", "--version"} THEN "continue" ELSE "invalid"
           [] wrapper = "stdbuf" ->
                IF token \in STDBUF_OPTIONS_WITH_VALUE THEN "consume-next" ELSE "invalid"
           [] wrapper = "timeout" ->
                IF token \in TIMEOUT_FLAG_OPTIONS THEN "continue"
                ELSE IF token \in TIMEOUT_OPTIONS_WITH_VALUE THEN "consume-next"
                ELSE "invalid"

ScanEnd(idx, expectsOptionValue, invalid) ==
    [idx |-> idx, expectsOptionValue |-> expectsOptionValue, invalid |-> invalid]

\* the while loop of scanWrapperInvocation; idx counts from 1, the loop starts at 2
RECURSIVE scanWrapperLoop(_, _, _, _)
scanWrapperLoop(wrapper, argv, idx, expectsOptionValue) ==
    IF idx > Len(argv) THEN ScanEnd(idx, expectsOptionValue, FALSE)
    ELSE IF argv[idx] = "" THEN scanWrapperLoop(wrapper, argv, idx + 1, expectsOptionValue)
    ELSE IF expectsOptionValue THEN scanWrapperLoop(wrapper, argv, idx + 1, FALSE)
    ELSE IF argv[idx] \in WrapperSeparators(wrapper) THEN ScanEnd(idx + 1, FALSE, FALSE)
    ELSE LET directive == onToken(wrapper, argv[idx])
         IN CASE directive = "stop" -> ScanEnd(idx, FALSE, FALSE)
              [] directive = "invalid" -> ScanEnd(idx, FALSE, TRUE)
              [] directive = "consume-next" -> scanWrapperLoop(wrapper, argv, idx + 1, TRUE)
              [] directive = "continue" -> scanWrapperLoop(wrapper, argv, idx + 1, FALSE)

\* scanWrapperInvocation(argv, params); timeout's adjustCommandIndex skips the duration
scanWrapperInvocation(wrapper, argv) ==
    LET end == scanWrapperLoop(wrapper, argv, 2, FALSE)
        commandIndex == IF wrapper = "timeout" THEN end.idx + 1 ELSE end.idx
    IN IF end.invalid \/ end.expectsOptionValue THEN NullArgv
       ELSE IF commandIndex > Len(argv) THEN NullArgv
       ELSE SubSeq(argv, commandIndex, Len(argv))

NotWrapper == [kind |-> "not-wrapper", wrapper |-> "", argv |-> NullArgv]

blockDispatchWrapper(wrapper) == [kind |-> "blocked", wrapper |-> wrapper, argv |-> NullArgv]

unwrapDispatchWrapper(wrapper, unwrapped) ==
    IF unwrapped # NullArgv
    THEN [kind |-> "unwrapped", wrapper |-> wrapper, argv |-> unwrapped]
    ELSE blockDispatchWrapper(wrapper)

TransparentWrappers == {"env", "nice", "nohup", "stdbuf", "timeout"}

BlockedWrappers == {"chrt", "doas", "ionice", "setsid", "sudo", "taskset"}

\* a faulty variant of unwrapKnownDispatchWrapperInvocation: sudo and doas are
\* unwrapped like nohup
unwrapPrivilegedToo(argv) ==
    IF argv = <<>> \/ Head(argv) = "" THEN NotWrapper
    ELSE LET wrapper == normalizeExecutableToken(Head(argv))
         IN IF wrapper \in TransparentWrappers
            THEN unwrapDispatchWrapper(wrapper, scanWrapperInvocation(wrapper, argv))
            ELSE IF wrapper \in {"sudo", "doas"}
            THEN unwrapDispatchWrapper(wrapper, scanWrapperInvocation("nohup", argv))
            ELSE IF wrapper \in BlockedWrappers THEN blockDispatchWrapper(wrapper)
            ELSE NotWrapper

unwrapKnownDispatchWrapperInvocation(argv) ==
    IF argv = <<>> \/ Head(argv) = "" THEN NotWrapper
    ELSE LET wrapper == normalizeExecutableToken(Head(argv))
         IN IF wrapper \in TransparentWrappers
            THEN unwrapDispatchWrapper(wrapper, scanWrapperInvocation(wrapper, argv))
            ELSE IF wrapper \in BlockedWrappers THEN blockDispatchWrapper(wrapper)
            ELSE NotWrapper

\* the for loop of unwrapDispatchWrappersForResolution
RECURSIVE unwrapLoop(_, _, _)
unwrapLoop(current, depth, maxDepth) ==
    IF depth >= maxDepth THEN current
    ELSE LET unwrap == unwrapKnownDispatchWrapperInvocation(current)
         IN IF unwrap.kind # "unwrapped" \/ Len(unwrap.argv) = 0 THEN current
            ELSE unwrapLoop(unwrap.argv, depth + 1, maxDepth)

unwrapDispatchWrappersForResolution(argv) ==
    unwrapLoop(argv, 0, MAX_DISPATCH_WRAPPER_DEPTH)

POSIX_SHELL_WRAPPER_NAMES == {"ash", "bash", "dash", "fish", "ksh", "sh", "zsh"}

POSIX_INLINE_COMMAND_FLAGS == {"-lc", "-c", "--command"}

NotShellWrapper == [isWrapper |-> FALSE, command |-> "null"]

\* the for loop of extractPosixShellInlineCommand; i counts from 1, the loop
\* starts at 2; no token at hand but "-c" matches /^-[^-]*c[^-]*$/i
RECURSIVE posixInlineLoop(_, _)
posixInlineLoop(argv, i) ==
    IF i > Len(argv) THEN "null"
    ELSE IF argv[i] = "" THEN posixInlineLoop(argv, i + 1)
    ELSE IF argv[i] = "--" THEN "null"
    ELSE IF argv[i] \in POSIX_INLINE_COMMAND_FLAGS
         THEN IF i + 1 <= Len(argv) /\ argv[i + 1] # "" THEN argv[i + 1] ELSE "null"
    ELSE posixInlineLoop(argv, i + 1)

extractPosixShellInlineCommand(argv) == posixInlineLoop(argv, 2)

\* of the shell wrapper specs the posix one; no token at hand names cmd or powershell
findShellWrapperSpec(base0) ==
    IF stripWindowsExeSuffix(base0) \in POSIX_SHELL_WRAPPER_NAMES THEN "posix" ELSE "null"

RECURSIVE extractShellWrapperCommandInternal(_, _, _, _)
extractShellWrapperCommandInternal(argv, rawCommand, depth, maxDepth) ==
    IF depth >= maxDepth THEN NotShellWrapper
    ELSE IF argv = <<>> \/ Head(argv) = "" THEN NotShellWrapper
    ELSE LET dispatchUnwrap == unwrapKnownDispatchWrapperInvocation(argv)
         IN IF dispatchUnwrap.kind = "blocked" THEN NotShellWrapper
            ELSE IF dispatchUnwrap.kind = "unwrapped"
                 THEN extractShellWrapperCommandInternal(dispatchUnwrap.argv, rawCommand, depth + 1, maxDepth)
            ELSE IF findShellWrapperSpec(normalizeExecutableToken(Head(argv))) = "null"
                 THEN NotShellWrapper
            ELSE LET payload == extractPosixShellInlineCommand(argv)
                 IN IF payload = "null" THEN NotShellWrapper
                    ELSE [isWrapper |-> TRUE,
                          command |-> IF rawCommand # "null" THEN rawCommand ELSE payload]

extractShellWrapperCommand(argv, rawCommand) ==
    extractShellWrapperCommandInternal(argv, rawCommand, 0, MAX_DISPATCH_WRAPPER_DEPTH)

WrapInit ==
    /\ wrapShell = NotShellWrapper
    /\ wrapArgv = <<>>
    /\ wrapResult = NotWrapper
    /\ wrapResolved = <<>>

\* an argv is classified and resolved; the functions are pure, so a behaviour
\* looks at one call
resolveWrappers(argv) ==
    /\ wrapArgv = <<>>
    /\ wrapArgv' = argv
    /\ wrapResult' = unwrapKnownDispatchWrapperInvocation(argv)
    /\ wrapResolved' = unwrapDispatchWrappersForResolution(argv)
    /\ wrapShell' = extractShellWrapperCommand(argv, "null")
    /\ UNCHANGED outsideWrap

WrapNext == \E argv \in Argvs \cup NestedArgvs : resolveWrappers(argv)

-----------------------------------------------------------------------------
(* Part 9: agents/pi-embedded-runner.ts, the attempt loop of                 *)
(* runEmbeddedPiAgent.  A profile id is its place in the profile order, 0 is *)
(* undefined.  The agent session is the environment: an attempt ends with a  *)
(* thrown prompt error or not, with an error on the last assistant message   *)
(* or not, aborted by the abort signal, by the timeout timer or not at all.  *)
(* What isAuthErrorMessage, isRateLimitErrorMessage, isAuthAssistantError    *)
(* and isRateLimitAssistantError find out about an error is its kind.        *)
(* pickFallbackThinkingLevel (pi-embedded-helpers.ts) is not part of the     *)
(* source tree at hand and is modelled from section 4.7 of the               *)
(* specification.                                                            *)

MaxProfiles == 3

ThinkLevels == <<"off", "minimal", "low", "medium", "high">>

ThinkLevelSet == {ThinkLevels[i] : i \in DOMAIN ThinkLevels}

ThinkRank(level) == CHOOSE i \in DOMAIN ThinkLevels : ThinkLevels[i] = level

ErrKinds == {"none", "auth", "rate-limit", "thinking", "other"}

AbortKinds == {"none", "signal", "timeout"}

(* How an attempt can end; an attempt whose prompt threw left no error on an *)
(* assistant message                                                         *)
AttemptResults ==
    {r \in [thrown : ErrKinds, assistant : ErrKinds, abort : AbortKinds] :
        r.thrown # "none" => r.assistant = "none"}

NoResult == [thrown |-> "none", assistant |-> "none", abort |-> "none"]

NoAttempt == [profileId |-> 0, thinkLevel |-> "none", result |-> NoResult, next |-> "none"]

(* The calls of runEmbeddedPiAgent: the length of the profile order, the     *)
(* candidates whose API key resolves, params.authProfileId (one of the       *)
(* order), whether model fallbacks are configured, params.thinkLevel         *)
RunConfigs ==
    {c \in [profiles : 0..MaxProfiles, usable : SUBSET (1..MaxProfiles),
            explicit : 0..MaxProfiles, fallbackConfigured : BOOLEAN,
            initialThinkLevel : ThinkLevelSet] :
        /\ c.explicit <= c.profiles
        /\ c.usable \subseteq 1..(IF c.profiles = 0 THEN 1 ELSE c.profiles)}

NoConfig == [profiles |-> 0, usable |-> {}, explicit |-> 0, fallbackConfigured |-> FALSE, initialThinkLevel |-> "off"]

profileCandidates(cfg) == IF cfg.profiles > 0 THEN [i \in 1..cfg.profiles |-> i] ELSE <<0>>

isAuthOrRateLimit(kind) == kind \in {"auth", "rate-limit"}

aborted(result) == result.abort # "none"

timedOut(result) == result.abort = "timeout"

(* The next lower level that was not attempted, "none" for undefined *)
pickFallbackThinkingLevel(message, attempted) ==
    LET lower == {l \in ThinkLevelSet \ attempted :
                      \E a \in attempted : ThinkRank(l) < ThinkRank(a)}
    IN IF message = "thinking" /\ lower # {}
       THEN CHOOSE l \in lower : \A k \in lower : ThinkRank(k) <= ThinkRank(l)
       ELSE "none"

RECURSIVE advanceFrom(_, _)
advanceFrom(cfg, nextIndex) ==
    IF nextIndex > Len(profileCandidates(cfg)) THEN [kind |-> "exhausted", index |-> 0]
    ELSE IF nextIndex \in cfg.usable THEN [kind |-> "advanced", index |-> nextIndex]
    ELSE IF profileCandidates(cfg)[nextIndex] # 0 /\ profileCandidates(cfg)[nextIndex] = cfg.explicit
         THEN [kind |-> "threw", index |-> 0]
    ELSE advanceFrom(cfg, nextIndex + 1)

(* Faulty variant: the search starts at the current candidate *)
advanceAuthProfileFromCurrent(cfg, index) == advanceFrom(cfg, index)

advanceAuthProfile(cfg, index) == advanceFrom(cfg, index + 1)

(* Faulty variant: a timeout is not taken for a rate limit *)
shouldRotateNoTimeout(result) == ~aborted(result) /\ isAuthOrRateLimit(result.assistant)

shouldRotate(result) ==
    (~aborted(result) /\ isAuthOrRateLimit(result.assistant)) \/ timedOut(result)

(* What the loop does when an attempt has ended: "retry-profile" (continue   *)
(* after advanceAuthProfile), "retry-thinking" (continue with a lower        *)
(* level), "throw" or "return"                                               *)
attemptNext(cfg, index, attempted, result) ==
    LET adv == advanceAuthProfile(cfg, index)
    IN IF result.thrown # "none" /\ ~aborted(result)
       THEN IF isAuthOrRateLimit(result.thrown) /\ adv.kind = "advanced" THEN "retry-profile"
            ELSE IF isAuthOrRateLimit(result.thrown) /\ adv.kind = "threw" THEN "throw"
            ELSE IF pickFallbackThinkingLevel(result.thrown, attempted) # "none" THEN "retry-thinking"
            ELSE "throw"
       ELSE IF pickFallbackThinkingLevel(result.assistant, attempted) # "none" /\ ~aborted(result)
            THEN "retry-thinking"
       ELSE IF shouldRotate(result)
            THEN IF adv.kind = "advanced" THEN "retry-profile"
                 ELSE IF adv.kind = "threw" \/ cfg.fallbackConfigured THEN "throw"
                 ELSE "return"
       ELSE "return"

(* The attempt reached the rotation block that marks the cooldown *)
marksCooldown(result) ==
    /\ ~(result.thrown # "none" /\ ~aborted(result))
    /\ ~(pickFallbackThinkingLevel(result.assistant, attemptedThinking) # "none" /\ ~aborted(result))
    /\ shouldRotate(result)
    /\ lastProfileId # 0

AuthInit ==
    /\ authPc = "idle"
    /\ authCfg = NoConfig
    /\ profileIndex = 1
    /\ thinkLevel = "off"
    /\ attemptedThinking = {}
    /\ lastProfileId = 0
    /\ cooldownMarks = {}
    /\ goodMarks = {}
    /\ lastAttempt = NoAttempt
    /\ attemptCount = 0
    /\ runHandleActive = FALSE
    /\ runWaiter = "none"

(* runEmbeddedPiAgent up to the loop: the key of the first candidate, or of  *)
(* the next one whose key resolves                                           *)
runStarts(cfg) ==
    /\ authPc = "idle"
    /\ authCfg' = cfg
    /\ thinkLevel' = cfg.initialThinkLevel
    /\ attemptedThinking' = {}
    /\ LET adv == advanceAuthProfile(cfg, 1)
       IN IF 1 \in cfg.usable
          THEN /\ authPc' = "loop"
               /\ profileIndex' = 1
               /\ lastProfileId' = profileCandidates(cfg)[1]
          ELSE IF profileCandidates(cfg)[1] # cfg.explicit /\ adv.kind = "advanced"
          THEN /\ authPc' = "loop"
               /\ profileIndex' = adv.index
               /\ lastProfileId' = profileCandidates(cfg)[adv.index]
          ELSE /\ authPc' = "thrown"
               /\ UNCHANGED <<profileIndex, lastProfileId>>
    /\ UNCHANGED <<cooldownMarks, goodMarks, lastAttempt, attemptCount, runHandleActive, runWaiter>>
    /\ UNCHANGED outsideAuth

(* The top of the loop up to session.prompt: the handle of the attempt is    *)
(* registered                                                                *)
attemptStarts ==
    /\ authPc = "loop"
    /\ authPc' = "prompting"
    /\ attemptedThinking' = attemptedThinking \cup {thinkLevel}
    /\ attemptCount' = attemptCount + 1
    /\ runHandleActive' = TRUE
    /\ UNCHANGED runWaiter
    /\ UNCHANGED <<authCfg, profileIndex, thinkLevel, lastProfileId, cooldownMarks, goodMarks, lastAttempt>>
    /\ UNCHANGED outsideAuth

(* notifyEmbeddedRunEnded(sessionId): the waiter after the call *)
notifyEmbeddedRunEnded(waiter) == IF waiter = "waiting" THEN "true" ELSE waiter

(* session.prompt settles: the handle is removed and the waiters are         *)
(* notified, then the loop continues, throws or returns                      *)
attemptEnds(result) ==
    /\ authPc = "prompting"
    /\ LET next == attemptNext(authCfg, profileIndex, attemptedThinking, result)
           adv == advanceAuthProfile(authCfg, profileIndex)
           fallbackThinking ==
               IF result.thrown # "none" /\ ~aborted(result)
               THEN pickFallbackThinkingLevel(result.thrown, attemptedThinking)
               ELSE pickFallbackThinkingLevel(result.assistant, attemptedThinking)
       IN /\ lastAttempt' = [profileId |-> lastProfileId, thinkLevel |-> thinkLevel,
                             result |-> result, next |-> next]
          /\ cooldownMarks' = IF marksCooldown(result) THEN cooldownMarks \cup {lastProfileId}
                              ELSE cooldownMarks
          /\ goodMarks' = IF next = "return" /\ lastProfileId # 0 THEN goodMarks \cup {lastProfileId}
                          ELSE goodMarks
          /\ authPc' = CASE next \in {"retry-profile", "retry-thinking"} -> "loop"
                         [] next = "throw" -> "thrown"
                         [] OTHER -> "returned"
          /\ IF next = "retry-profile"
             THEN /\ profileIndex' = adv.index
                  /\ lastProfileId' = profileCandidates(authCfg)[adv.index]
                  /\ thinkLevel' = authCfg.initialThinkLevel
                  /\ attemptedThinking' = {}
             ELSE IF next = "retry-thinking"
             THEN /\ thinkLevel' = fallbackThinking
                  /\ UNCHANGED <<profileIndex, lastProfileId, attemptedThinking>>
             ELSE UNCHANGED <<profileIndex, lastProfileId, thinkLevel, attemptedThinking>>
    /\ runHandleActive' = FALSE
    /\ runWaiter' = notifyEmbeddedRunEnded(runWaiter)
    /\ UNCHANGED <<authCfg, attemptCount>>
    /\ UNCHANGED outsideAuth

AuthNext ==
    \/ \E cfg \in RunConfigs : runStarts(cfg)
    \/ attemptStarts
    \/ \E result \in AttemptResults : attemptEnds(result)

(* waitForEmbeddedPiRunEnd(sessionId): true at once when no handle is        *)
(* registered, a waiter with a timer otherwise                               *)
waitForEmbeddedPiRunEnd ==
    /\ runWaiter = "none"
    /\ runWaiter' = IF runHandleActive THEN "waiting" ELSE "true"
    /\ UNCHANGED <<authPc, authCfg, profileIndex, thinkLevel, attemptedThinking, lastProfileId, cooldownMarks, goodMarks, lastAttempt, attemptCount, runHandleActive>>
    /\ UNCHANGED outsideAuth

(* The timer of the waiter fires: the waiter is removed and resolves false *)
waiterTimesOut ==
    /\ runWaiter = "waiting"
    /\ runWaiter' = "false"
    /\ UNCHANGED <<authPc, authCfg, profileIndex, thinkLevel, attemptedThinking, lastProfileId, cooldownMarks, goodMarks, lastAttempt, attemptCount, runHandleActive>>
    /\ UNCHANGED outsideAuth

(* The calls of runEmbeddedPiAgent without params.authProfileId whose        *)
(* candidates all have a key that resolves                                   *)
WaitRunConfigs == {c \in RunConfigs : c.explicit = 0 /\ c.usable = 1..c.profiles}

(* A run of runEmbeddedPiAgent with a caller that waits for its end *)
RunWaitNext ==
    \/ \E cfg \in WaitRunConfigs : runStarts(cfg)
    \/ attemptStarts
    \/ \E result \in AttemptResults : attemptEnds(result)
    \/ waitForEmbeddedPiRunEnd
    \/ waiterTimesOut

-----------------------------------------------------------------------------
(* Part 10: agents/pi-embedded-runner/run/hook-stream-wrapper.ts.  The hook  *)
(* runner and the inner StreamFn are the environment: a hook resolves with a *)
(* result or undefined, or rejects.  A message is a sequence of tokens, the  *)
(* prefix "LLM call blocked by plugin:" being one token.  The caller of      *)
(* wrapStreamFnWithHooks is not part of the source tree at hand: as sections *)
(* 4.7 and 4.9 of the specification have it, a turn wraps its StreamFn once  *)
(* and the hooks registered do not change during the turn.                   *)

MaxLlmCalls == 3

LlmCallIds == 1..MaxLlmCalls

HookNames == {"context_assembled", "before_llm_call"}

BlockedPrefix == "LLM call blocked by plugin:"

DefaultBlockReason == "blocked by before_llm_call hook"

NoMessage == <<>>

(* What runBeforeLlmCall settles with: undefined, a result, or a rejection   *)
(* whose message may itself start with the prefix                            *)
BeforeLlmCallOutcomes ==
    {[kind |-> "undefined", block |-> FALSE, blockReason |-> "undefined", message |-> NoMessage]}
    \cup [kind : {"result"}, block : BOOLEAN, blockReason : {"undefined", "policy"}, message : {NoMessage}]
    \cup [kind : {"rejects"}, block : {FALSE}, blockReason : {"undefined"},
          message : {<<"hook kaboom">>, <<BlockedPrefix, "forged">>}]

NoOutcome == [kind |-> "none", block |-> FALSE, blockReason |-> "undefined", message |-> NoMessage]

IdleLlmCall == [pc |-> "idle", contextAssembled |-> FALSE, before |-> NoOutcome, streamed |-> FALSE, error |-> NoMessage]

(* Faulty variant: the flag is not looked at *)
firesContextAssembledEveryCall(emitted, regs) == "context_assembled" \in regs

firesContextAssembled(emitted, regs) == ~emitted /\ "context_assembled" \in regs

blockedError(outcome) ==
    <<BlockedPrefix, IF outcome.blockReason = "undefined" THEN DefaultBlockReason ELSE outcome.blockReason>>

(* The error the try block of before_llm_call ends with, NoMessage for none *)
beforeLlmCallError(outcome) ==
    IF outcome.kind = "rejects" THEN outcome.message
    ELSE IF outcome.kind = "result" /\ outcome.block THEN blockedError(outcome)
    ELSE NoMessage

(* Faulty variant: the catch block swallows every error *)
rethrowsNothing(message) == FALSE

rethrows(message) == message # NoMessage /\ Head(message) = BlockedPrefix

HookInit ==
    /\ hookWrapped = FALSE
    /\ hookRegs = {}
    /\ contextAssembledEmitted = FALSE
    /\ llmCalls = [i \in LlmCallIds |-> IdleLlmCall]

wrapStreamFnWithHooks(regs) ==
    /\ ~hookWrapped
    /\ hookWrapped' = TRUE
    /\ hookRegs' = regs
    /\ contextAssembledEmitted' = FALSE
    /\ UNCHANGED llmCalls
    /\ UNCHANGED outsideHook

(* The call after its context_assembled stage: it awaits runBeforeLlmCall,   *)
(* or calls the inner StreamFn at once                                       *)
afterContextAssembled(call) ==
    IF "before_llm_call" \in hookRegs
    THEN [call EXCEPT !.pc = "before_llm_call"]
    ELSE [call EXCEPT !.pc = "done", !.streamed = TRUE]

(* wrapped(model, context, options) up to its first await *)
wrappedCalled(i) ==
    /\ hookWrapped
    /\ llmCalls[i].pc = "idle"
    /\ i > 1 => llmCalls[i - 1].pc # "idle"
    /\ IF firesContextAssembled(contextAssembledEmitted, hookRegs)
       THEN /\ contextAssembledEmitted' = TRUE
            /\ llmCalls' = [llmCalls EXCEPT ![i].pc = "context_assembled", ![i].contextAssembled = TRUE]
       ELSE /\ llmCalls' = [llmCalls EXCEPT ![i] = afterContextAssembled(llmCalls[i])]
            /\ UNCHANGED contextAssembledEmitted
    /\ UNCHANGED <<hookWrapped, hookRegs>>
    /\ UNCHANGED outsideHook

(* runContextAssembled settles; a rejection is logged *)
runContextAssembledSettles(i, rejects) ==
    /\ llmCalls[i].pc = "context_assembled"
    /\ llmCalls' = [llmCalls EXCEPT ![i] = afterContextAssembled(llmCalls[i])]
    /\ UNCHANGED <<hookWrapped, hookRegs, contextAssembledEmitted>>
    /\ UNCHANGED outsideHook

(* runBeforeLlmCall settles: the call is blocked, or the inner StreamFn is   *)
(* called                                                                    *)
runBeforeLlmCallSettles(i, outcome) ==
    /\ llmCalls[i].pc = "before_llm_call"
    /\ LET err == beforeLlmCallError(outcome)
       IN llmCalls' = [llmCalls EXCEPT ![i].pc = "done", ![i].before = outcome,
                                       ![i].streamed = ~rethrows(err),
                                       ![i].error = IF rethrows(err) THEN err ELSE NoMessage]
    /\ UNCHANGED <<hookWrapped, hookRegs, contextAssembledEmitted>>
    /\ UNCHANGED outsideHook

HookNext ==
    \/ \E regs \in SUBSET HookNames : wrapStreamFnWithHooks(regs)
    \/ \E i \in LlmCallIds : wrappedCalled(i)
    \/ \E i \in LlmCallIds, rejects \in BOOLEAN : runContextAssembledSettles(i, rejects)
    \/ \E i \in LlmCallIds, outcome \in BeforeLlmCallOutcomes : runBeforeLlmCallSettles(i, outcome)

-----------------------------------------------------------------------------
(* Part 11: auto-reply/reply/agent-runner.ts, a turn of runReplyAgent seen   *)
(* from its typing controller and its session entry.  The embedded agent is  *)
(* the environment: while it runs it invokes onPartialReply, onBlockReply,   *)
(* onToolResult and onAgentEvent, then it returns or throws.  What the final *)
(* payloads come to after filtering is an input here (Part 4 models the      *)
(* filtering).  The typing controller (reply/typing.ts) and                  *)
(* incrementCompactionCount (reply/session-updates.ts) are not part of the   *)
(* source tree at hand and are modelled from section 4.7 of the              *)
(* specification.                                                            *)

MaxCallbacks == 2

(* Texts by what the callbacks find out about them: a visible text, the      *)
(* empty text, a text that is only HEARTBEAT_OK, the silent reply token      *)
CallbackTexts == {"visible", "", "HEARTBEAT_OK", "NO_REPLY"}

CallbackKinds == {"partial", "block", "tool"}

(* runResult.payloads after filtering: "none" (payloadArray is empty),       *)
(* "dropped" (filteredPayloads is empty), "silent" (only the silent token    *)
(* is left), "visible"                                                       *)
FinalKinds == {"none", "dropped", "silent", "visible"}

Models == {"m1", "m2"}

ThrowPoints == {"none", "saveIntro", "startTypingLoop", "saveUsage", "incrementCompactionCount"}

AgentResults == [final : FinalKinds, usage : BOOLEAN, model : Models, throwAt : ThrowPoints]

TurnConfigs ==
    [isHeartbeat : BOOLEAN, route : {"run", "steered", "enqueued"}, hasSession : BOOLEAN,
     shouldInjectGroupIntro : BOOLEAN, needsIntro : BOOLEAN]

NoTurnConfig == [isHeartbeat |-> FALSE, route |-> "run", hasSession |-> FALSE, shouldInjectGroupIntro |-> FALSE, needsIntro |-> FALSE]

InitialEntry == [updatedAt |-> 0, model |-> "m1", totalTokens |-> 0, groupActivationNeedsSystemIntro |-> FALSE, compactionCount |-> 0]

(* The fields of a SessionEntry other than updatedAt *)
EntryFields(entry) == <<entry.model, entry.totalTokens, entry.groupActivationNeedsSystemIntro, entry.compactionCount>>

(* stripHeartbeatToken(text).shouldSkip of a text that includes HEARTBEAT_OK *)
skipsHeartbeatToken(isHeartbeat, text) == ~isHeartbeat /\ text = "HEARTBEAT_OK"

(* The callback returns before it reaches the typing controller *)
callbackReturnsEarly(kind, isHeartbeat, text) ==
    \/ skipsHeartbeatToken(isHeartbeat, text)
    \/ kind = "block" /\ (text = "" \/ (text = "HEARTBEAT_OK" /\ ~isHeartbeat) \/ text = "NO_REPLY")

(* The typing loop starts on a text that shows *)
armsOnText(text) == text \notin {"", "NO_REPLY"}

shouldSignalTyping(final) == final = "visible"

(* Faulty variant: the typing loop starts for every turn with a reply *)
startsTypingLoopForHeartbeat(final, isHeartbeat) == shouldSignalTyping(final)

startsTypingLoop(final, isHeartbeat) == shouldSignalTyping(final) /\ ~isHeartbeat

(* Faulty variant: markRunComplete at the end of the try block only *)
typingCallOnExitNoFinally(exit) ==
    IF exit \in {"steered", "enqueued"} THEN {"cleanup"}
    ELSE IF exit = "reply" THEN {"markRunComplete"}
    ELSE {}

(* The call to the typing controller a way out of runReplyAgent makes *)
typingCallOnExit(exit) ==
    IF exit \in {"steered", "enqueued"} THEN {"cleanup"} ELSE {"markRunComplete"}

touchUpdatedAt(entry, t) == [entry EXCEPT !.updatedAt = t]

afterGroupIntro(cfg, entry, t) ==
    IF cfg.shouldInjectGroupIntro /\ cfg.hasSession /\ entry.groupActivationNeedsSystemIntro
    THEN [entry EXCEPT !.groupActivationNeedsSystemIntro = FALSE, !.updatedAt = t]
    ELSE entry

afterUsage(cfg, entry, result, t) ==
    IF ~cfg.hasSession THEN entry
    ELSE IF result.usage
    THEN [entry EXCEPT !.totalTokens = 1, !.model = result.model, !.updatedAt = t]
    ELSE [entry EXCEPT !.model = result.model]

incrementCompactionCount(cfg, entry, t) ==
    IF cfg.hasSession
    THEN [entry EXCEPT !.compactionCount = entry.compactionCount + 1, !.updatedAt = t]
    ELSE entry

(* The stage of the tail of runReplyAgent that throws, "none" when the tail  *)
(* runs to its return: a stage throws only when the tail reaches its await   *)
thrownAt(cfg, entry, completed, result) ==
    LET intro == cfg.shouldInjectGroupIntro /\ cfg.hasSession /\ entry.groupActivationNeedsSystemIntro
        empty == result.final \in {"none", "dropped"}
    IN IF result.throwAt = "saveIntro" /\ intro THEN "saveIntro"
       ELSE IF empty THEN "none"
       ELSE IF result.throwAt = "startTypingLoop" /\ startsTypingLoop(result.final, cfg.isHeartbeat)
            THEN "startTypingLoop"
       ELSE IF result.throwAt = "saveUsage" /\ cfg.hasSession THEN "saveUsage"
       ELSE IF result.throwAt = "incrementCompactionCount" /\ completed THEN "incrementCompactionCount"
       ELSE "none"

(* The tail of runReplyAgent after the agent returned: the entry it leaves,  *)
(* the way out, whether startTypingLoop was called                           *)
replyTail(cfg, entry, completed, result, t) ==
    LET thrown == thrownAt(cfg, entry, completed, result)
        e1 == afterGroupIntro(cfg, entry, t)
        e2 == afterUsage(cfg, e1, result, t)
        e3 == IF completed THEN incrementCompactionCount(cfg, e2, t) ELSE e2
        loop == startsTypingLoop(result.final, cfg.isHeartbeat)
    IN IF thrown = "saveIntro" THEN [entry |-> e1, exit |-> "thrown", loop |-> FALSE]
       ELSE IF result.final \in {"none", "dropped"} THEN [entry |-> e1, exit |-> "empty", loop |-> FALSE]
       ELSE IF thrown = "startTypingLoop" THEN [entry |-> e1, exit |-> "thrown", loop |-> TRUE]
       ELSE IF thrown = "saveUsage" THEN [entry |-> e2, exit |-> "thrown", loop |-> loop]
       ELSE IF thrown = "incrementCompactionCount" THEN [entry |-> e2, exit |-> "thrown", loop |-> loop]
       ELSE [entry |-> e3, exit |-> "reply", loop |-> loop]

TurnInit ==
    /\ rtPc = "idle"
    /\ rtCfg = NoTurnConfig
    /\ rtNow = 0
    /\ rtCallbacks = 0
    /\ rtExit = "none"
    /\ sessionEntry = InitialEntry
    /\ autoCompactionCompleted = FALSE
    /\ compactionEndSeen = FALSE
    /\ typingCalls = {}
    /\ typingArmed = FALSE
    /\ typingEverArmed = FALSE
    /\ pendingBlockTasks = 0
    /\ pendingToolTasks = 0

(* runReplyAgent up to the call of the agent: a steered or enqueued turn     *)
(* returns at once                                                           *)
replyTurnStarts(cfg) ==
    /\ rtPc = "idle"
    /\ rtCfg' = cfg
    /\ rtNow' = rtNow + 1
    /\ LET entry == [sessionEntry EXCEPT !.groupActivationNeedsSystemIntro = cfg.needsIntro]
       IN IF cfg.route = "run"
          THEN /\ rtPc' = "running"
               /\ sessionEntry' = entry
               /\ UNCHANGED <<rtExit, typingCalls>>
          ELSE /\ rtPc' = "done"
               /\ rtExit' = cfg.route
               /\ sessionEntry' = IF cfg.hasSession THEN touchUpdatedAt(entry, rtNow') ELSE entry
               /\ typingCalls' = typingCalls \cup typingCallOnExit(cfg.route)
    /\ UNCHANGED <<rtCallbacks, autoCompactionCompleted, compactionEndSeen, typingArmed, typingEverArmed>>
    /\ UNCHANGED <<pendingBlockTasks, pendingToolTasks>>
    /\ UNCHANGED outsideTurn

(* The callback leaves a delivery task behind: onPartialReply is awaited by  *)
(* its caller, a callback that returns early has nothing left to await      *)
startsDeliveryTask(kind, isHeartbeat, text) ==
    kind \in {"block", "tool"} /\ ~callbackReturnsEarly(kind, isHeartbeat, text)

(* onPartialReply, onBlockReply or onToolResult up to startTypingOnText; the *)
(* delivery of a block or of a tool result is a task that settles later     *)
onTextCallback(kind, text) ==
    /\ rtPc = "running"
    /\ rtCallbacks < MaxCallbacks
    /\ rtCallbacks' = rtCallbacks + 1
    /\ rtNow' = rtNow + 1
    /\ IF ~callbackReturnsEarly(kind, rtCfg.isHeartbeat, text) /\ ~rtCfg.isHeartbeat
       THEN /\ typingCalls' = typingCalls \cup {"startTypingOnText"}
            /\ typingArmed' = (typingArmed \/ armsOnText(text))
            /\ typingEverArmed' = (typingEverArmed \/ armsOnText(text))
       ELSE UNCHANGED <<typingCalls, typingArmed, typingEverArmed>>
    /\ pendingBlockTasks' = pendingBlockTasks +
           (IF kind = "block" /\ startsDeliveryTask(kind, rtCfg.isHeartbeat, text) THEN 1 ELSE 0)
    /\ pendingToolTasks' = pendingToolTasks +
           (IF kind = "tool" /\ startsDeliveryTask(kind, rtCfg.isHeartbeat, text) THEN 1 ELSE 0)
    /\ UNCHANGED <<rtPc, rtCfg, rtExit, sessionEntry, autoCompactionCompleted, compactionEndSeen>>
    /\ UNCHANGED outsideTurn

(* A delivery task settles, the delivery resolved or rejected; nothing keeps *)
(* a task from settling after runReplyAgent has returned                     *)
deliveryTaskSettles(kind) ==
    /\ rtPc \in {"running", "done"}
    /\ IF kind = "block"
       THEN /\ pendingBlockTasks > 0
            /\ pendingBlockTasks' = pendingBlockTasks - 1
            /\ UNCHANGED pendingToolTasks
       ELSE /\ pendingToolTasks > 0
            /\ pendingToolTasks' = pendingToolTasks - 1
            /\ UNCHANGED pendingBlockTasks
    /\ UNCHANGED <<rtPc, rtCfg, rtNow, rtCallbacks, rtExit, sessionEntry, autoCompactionCompleted, compactionEndSeen, typingCalls, typingArmed, typingEverArmed>>
    /\ UNCHANGED outsideTurn

(* onAgentEvent with an event of the compaction stream *)
onAgentEvent(phase, willRetry) ==
    /\ rtPc = "running"
    /\ rtCallbacks < MaxCallbacks
    /\ rtCallbacks' = rtCallbacks + 1
    /\ rtNow' = rtNow + 1
    /\ autoCompactionCompleted' = (autoCompactionCompleted \/ (phase = "end" /\ ~willRetry))
    /\ compactionEndSeen' = (compactionEndSeen \/ (phase = "end" /\ willRetry = FALSE))
    /\ UNCHANGED <<rtPc, rtCfg, rtExit, sessionEntry, typingCalls, typingArmed, typingEverArmed, pendingBlockTasks, pendingToolTasks>>
    /\ UNCHANGED outsideTurn

(* runWithModelFallback rejects: the failure text is returned, the pending   *)
(* tasks are not awaited                                                     *)
replyAgentThrows ==
    /\ rtPc = "running"
    /\ rtPc' = "done"
    /\ rtNow' = rtNow + 1
    /\ rtExit' = "failed"
    /\ typingCalls' = typingCalls \cup typingCallOnExit("failed")
    /\ typingArmed' = (typingArmed /\ "markRunComplete" \notin typingCalls')
    /\ UNCHANGED <<rtCfg, rtCallbacks, sessionEntry, autoCompactionCompleted, compactionEndSeen, typingEverArmed>>
    /\ UNCHANGED <<pendingBlockTasks, pendingToolTasks>>
    /\ UNCHANGED outsideTurn

(* The tail of runReplyAgent reaches Promise.allSettled on the pending tasks *)
drainsPendingTasks(cfg, entry, completed, result) ==
    thrownAt(cfg, entry, completed, result) # "saveIntro"

(* runWithModelFallback resolves: the tail of runReplyAgent to its return or *)
(* to the await that throws, then the finally block; the tail awaits the     *)
(* pending tasks once the group intro is saved                               *)
replyAgentReturns(result) ==
    /\ rtPc = "running"
    /\ rtPc' = "done"
    /\ rtNow' = rtNow + 1
    /\ LET tail == replyTail(rtCfg, sessionEntry, autoCompactionCompleted, result, rtNow')
       IN /\ sessionEntry' = tail.entry
          /\ rtExit' = tail.exit
          /\ typingCalls' = typingCalls \cup (IF tail.loop THEN {"startTypingLoop"} ELSE {})
                                       \cup typingCallOnExit(tail.exit)
          /\ typingEverArmed' = (typingEverArmed \/ tail.loop)
          /\ typingArmed' = ((typingArmed \/ tail.loop) /\ "markRunComplete" \notin typingCalls')
    /\ IF drainsPendingTasks(rtCfg, sessionEntry, autoCompactionCompleted, result)
       THEN pendingBlockTasks' = 0 /\ pendingToolTasks' = 0
       ELSE UNCHANGED <<pendingBlockTasks, pendingToolTasks>>
    /\ UNCHANGED <<rtCfg, rtCallbacks, autoCompactionCompleted, compactionEndSeen>>
    /\ UNCHANGED outsideTurn

TurnNext ==
    \/ \E cfg \in TurnConfigs : replyTurnStarts(cfg)
    \/ \E kind \in CallbackKinds, text \in CallbackTexts : onTextCallback(kind, text)
    \/ \E phase \in {"start", "end"}, willRetry \in BOOLEAN : onAgentEvent(phase, willRetry)
    \/ \E kind \in {"block", "tool"} : deliveryTaskSettles(kind)
    \/ replyAgentThrows
    \/ \E result \in AgentResults : replyAgentReturns(result)

-----------------------------------------------------------------------------
(* Part 12: run/hook-response-emit.ts, applyBeforeResponseEmitHook, and the  *)
(* reply payload runEmbeddedPiAgent builds from the assistant texts.  The    *)
(* call site of the helper is not part of the source tree at hand: what it   *)
(* does with the helper's result is modelled from the specification.         *)

MaxFollowups == 2

Undefined == "undefined"

AssistantContents == {"", "original", "modified"}

MessagesSnapshots == [hasAssistant : BOOLEAN, content : AssistantContents]

NoSnapshot == [hasAssistant |-> FALSE, content |-> ""]

\* what runBeforeResponseEmit resolves with; content "none" is no content
BeforeResponseEmitResults ==
    [hasResult : {TRUE}, block : BOOLEAN, content : {"none", "original", "modified"}]
        \cup {[hasResult |-> FALSE, block |-> FALSE, content |-> "none"]}

\* the hook has not run; the hook has rejected
HookNotRun == [hasResult |-> FALSE, block |-> FALSE, content |-> "not-run"]

HookRejected == [hasResult |-> FALSE, block |-> FALSE, content |-> "rejected"]

extractAssistantText(snapshot) ==
    IF snapshot.hasAssistant THEN snapshot.content ELSE ""

\* the helper returns without running the hook
skipsEmitHook(snapshot) ==
    ~snapshot.hasAssistant \/ extractAssistantText(snapshot) = ""

\* the value applyBeforeResponseEmitHook returns once the hook has resolved
applyBeforeResponseEmitHook(content, result) ==
    IF result.hasResult /\ result.block THEN Undefined
    ELSE IF ~result.hasResult \/ result.content = "none" \/ result.content = content
         THEN Undefined
         ELSE result.content

\* the last message of the session after the helper
sessionAfterEmitHook(session, returned) ==
    IF returned # Undefined THEN returned ELSE session

\* the call site: a modified content replaces the last assistant text
assistantTextsAfterEmitHook(texts, returned) ==
    IF returned # Undefined THEN returned ELSE texts

\* the text of the reply payload built from the assistant texts
replyPayload(texts) ==
    IF texts = "" THEN "none" ELSE texts

EmitInit ==
    /\ emitPc = "idle"
    /\ messagesSnapshot = NoSnapshot
    /\ assistantTexts = ""
    /\ sessionMessage = ""
    /\ emitResult = HookNotRun
    /\ emitReturned = Undefined
    /\ emittedReply = "none"
    /\ queuedFollowups = 0

\* the agent has answered: the helper is called with the snapshot
responseReady(snapshot) ==
    /\ emitPc = "idle"
    /\ messagesSnapshot' = snapshot
    /\ assistantTexts' = extractAssistantText(snapshot)
    /\ sessionMessage' = extractAssistantText(snapshot)
    /\ emitPc' = IF skipsEmitHook(snapshot) THEN "applied" ELSE "hook"
    /\ UNCHANGED <<emitResult, emitReturned, emittedReply, queuedFollowups>>
    /\ UNCHANGED outsideEmit

\* runBeforeResponseEmit resolves
runBeforeResponseEmitSettles(result) ==
    /\ emitPc = "hook"
    /\ LET returned == applyBeforeResponseEmitHook(extractAssistantText(messagesSnapshot), result)
       IN /\ emitReturned' = returned
          /\ sessionMessage' = sessionAfterEmitHook(sessionMessage, returned)
    /\ emitResult' = result
    /\ emitPc' = "applied"
    /\ UNCHANGED <<messagesSnapshot, assistantTexts, emittedReply, queuedFollowups>>
    /\ UNCHANGED outsideEmit

\* runBeforeResponseEmit rejects: the error propagates and the call site
\* goes on without a modification
runBeforeResponseEmitRejects ==
    /\ emitPc = "hook"
    /\ emitPc' = "applied"
    /\ emitResult' = HookRejected
    /\ UNCHANGED <<messagesSnapshot, assistantTexts, sessionMessage, emitReturned, emittedReply, queuedFollowups>>
    /\ UNCHANGED outsideEmit

\* the reply payload is built from the assistant texts and returned
emitReply ==
    /\ emitPc = "applied"
    /\ assistantTexts' = assistantTextsAfterEmitHook(assistantTexts, emitReturned)
    /\ emittedReply' = replyPayload(assistantTexts')
    /\ emitPc' = "done"
    /\ UNCHANGED <<messagesSnapshot, sessionMessage, emitResult, emitReturned, queuedFollowups>>
    /\ UNCHANGED outsideEmit

\* a message that arrives while the run is active is queued as a follow-up
enqueueFollowupRun ==
    /\ emitPc # "idle"
    /\ queuedFollowups < MaxFollowups
    /\ queuedFollowups' = queuedFollowups + 1
    /\ UNCHANGED <<emitPc, messagesSnapshot, assistantTexts, sessionMessage, emitResult, emitReturned, emittedReply>>
    /\ UNCHANGED outsideEmit

\* finalizeWithFollowup: the drain takes the next queued follow-up turn, if any
finalizeWithFollowup ==
    /\ emitPc = "done"
    /\ queuedFollowups' = IF queuedFollowups > 0 THEN queuedFollowups - 1 ELSE 0
    /\ emitPc' = "idle"
    /\ messagesSnapshot' = NoSnapshot
    /\ assistantTexts' = ""
    /\ sessionMessage' = ""
    /\ emitResult' = HookNotRun
    /\ emitReturned' = Undefined
    /\ emittedReply' = "none"
    /\ UNCHANGED outsideEmit

EmitNext ==
    \/ \E snapshot \in MessagesSnapshots : responseReady(snapshot)
    \/ \E result \in BeforeResponseEmitResults : runBeforeResponseEmitSettles(result)
    \/ runBeforeResponseEmitRejects
    \/ emitReply
    \/ enqueueFollowupRun
    \/ finalizeWithFollowup

-----------------------------------------------------------------------------
(* Part 13: reconnectDelayMs of the browser relay.  A JavaScript number is   *)
(* [finite, n]: NaN and the infinities are not finite.  random() is a number *)
(* of quarters, so that the jitter values, multiples of four, give integers. *)

MaxAttempt == 6

RandomDen == 4

DefaultBaseMs == 1000

DefaultMaxMs == 30000

DefaultJitterMs == 1000

NotFinite == [finite |-> FALSE, n |-> 0]

Num(n) == [finite |-> TRUE, n |-> n]

Attempts == {NotFinite} \cup {Num(n) : n \in -2..MaxAttempt}

ReconnectOpts ==
    [baseMs : {NotFinite, Num(1000), Num(40000)},
     maxMs : {NotFinite, Num(30000), Num(5000)},
     jitterMs : {NotFinite, Num(0), Num(1000), Num(-1000)},
     random : 0..(RandomDen - 1)]

OrDefault(x, default) == IF x.finite THEN x.n ELSE default

Max2(a, b) == IF a >= b THEN a ELSE b

Min2(a, b) == IF a <= b THEN a ELSE b

baseMsOf(opts) == OrDefault(opts.baseMs, DefaultBaseMs)

maxMsOf(opts) == OrDefault(opts.maxMs, DefaultMaxMs)

jitterMsOf(opts) == OrDefault(opts.jitterMs, DefaultJitterMs)

safeAttempt(attempt) == Max2(0, OrDefault(attempt, 0))

\* a faulty variant of backoff: the cap is not applied
backoffUncapped(attempt, opts) ==
    baseMsOf(opts) * 2 ^ safeAttempt(attempt)

backoff(attempt, opts) ==
    Min2(baseMsOf(opts) * 2 ^ safeAttempt(attempt), maxMsOf(opts))

reconnectDelayMs(attempt, opts) ==
    backoff(attempt, opts) + (Max2(0, jitterMsOf(opts)) * opts.random) \div RandomDen

ReconnectInit ==
    /\ rcPc = "idle"
    /\ rcAttempt = NotFinite
    /\ rcOpts = [baseMs |-> NotFinite, maxMs |-> NotFinite, jitterMs |-> NotFinite, random |-> 0]
    /\ rcDelay = 0

reconnectDelayCalled(attempt, opts) ==
    /\ rcPc = "idle"
    /\ rcPc' = "done"
    /\ rcAttempt' = attempt
    /\ rcOpts' = opts
    /\ rcDelay' = reconnectDelayMs(attempt, opts)
    /\ UNCHANGED outsideReconnect

ReconnectNext ==
    \E attempt \in Attempts, opts \in ReconnectOpts : reconnectDelayCalled(attempt, opts)

-----------------------------------------------------------------------------
(* Specifications *)

RunNext(callers) ==
    \/ \E c \in callers, id \in JobIds, forced \in BOOLEAN : runPrepare(c, id, forced)
    \/ \E c \in callers : runApply(c)

StartNext ==
    \/ startClear
    \/ runMissedJobsReserve
    \/ \E m \in missed : runMissedJobsApply(m)
    \/ startFinish

CronNext ==
    \/ Tick
    \/ list
    \/ status
    \/ \E enabled \in BOOLEAN, sched \in InputSchedules : add(enabled, sched)
    \/ \E id \in JobIds, pe \in PatchEnabled, ps \in {NoSchedule} \cup PatchSchedules :
          update(id, pe, ps)
    \/ \E id \in JobIds : remove(id)
    \/ RunNext({1})
    \/ StartNext

Init == CronInit /\ ExecInit /\ LaneInit /\ ReplyInit /\ ChatInit /\ LockInit
        /\ QueueInit /\ WrapInit /\ AuthInit /\ HookInit
        /\ TurnInit /\ EmitInit /\ ReconnectInit

(* The cron scheduler under every interleaving of its operations, one        *)
(* run(id, mode) invocation in flight at a time                              *)
Spec == Init /\ [][CronNext]_vars

(* Jobs are added and run(id, mode) invocations act concurrently; nothing else *)
(* touches the store                                                           *)
RunOnlyNext ==
    \/ Tick
    \/ \E enabled \in BOOLEAN, sched \in InputSchedules : add(enabled, sched)
    \/ RunNext(Callers)

SpecRun == Init /\ [][RunOnlyNext]_vars

(* run(id, mode) invocations act concurrently with add, update and remove *)
RunOpsNext ==
    \/ Tick
    \/ \E enabled \in BOOLEAN, sched \in InputSchedules : add(enabled, sched)
    \/ \E id \in JobIds, pe \in PatchEnabled : update(id, pe, NoSchedule)
    \/ \E id \in JobIds : remove(id)
    \/ RunNext(Callers)

SpecRunOps == Init /\ [][RunOpsNext]_vars

(* The job body of a reserved run ends (executeJobCoreWithTimeout returns or *)
(* throws) and the second locked block of run is entered                     *)
SpecRunOpsFair == SpecRunOps /\ \A c \in Callers : WF_vars(runApply(c))

(* The other parts run beside a cron service that holds no job *)
InitNoJobs == Init /\ store = <<>>

SpecExec == InitNoJobs /\ [][ExecNext]_vars

SpecLanes == InitNoJobs /\ [][LaneNext]_vars

SpecReply == InitNoJobs /\ [][ReplyNext]_vars

SpecChat == InitNoJobs /\ [][ChatNext]_vars

SpecLock == InitNoJobs /\ [][LockNext]_vars

SpecQueue == InitNoJobs /\ [][QueueNext]_vars

SpecWrap == InitNoJobs /\ [][WrapNext]_vars

SpecAuth == InitNoJobs /\ [][AuthNext]_vars

SpecHook == InitNoJobs /\ [][HookNext]_vars

SpecTurn == InitNoJobs /\ [][TurnNext]_vars

SpecEmit == InitNoJobs /\ [][EmitNext]_vars

SpecReconnect == InitNoJobs /\ [][ReconnectNext]_vars

SpecRunWait == InitNoJobs /\ [][RunWaitNext]_vars

(* An agent run ends (it is aborted after timeoutMs at the latest) and a     *)
(* scheduled drain runs its loop                                             *)
SpecQueueFair ==
    /\ SpecQueue
    /\ WF_vars(\E outcome \in TurnOutcomes : runEnds(outcome))
    /\ WF_vars(drainNext)

-----------------------------------------------------------------------------
(* Claims on the cron scheduler *)

Executing(id) == {c \in Callers : calls[c].pc = "executing" /\ calls[c].jobId = id}

RunInProgress(id) == Executing(id) # {} \/ \E m \in missed : m.id = id

\* C1: of two concurrent run(jobId) invocations exactly one executes the job
\* body: never are two invocations executing the same job, and an invocation
\* made while another one is executing the job returns already-running.
C1_SingleFire ==
    /\ [](\A id \in JobIds : Cardinality(Executing(id)) <= 1)
    /\ [][\A c \in Callers, id \in JobIds :
            (/\ Executing(id) \ {c} # {}
             /\ \E forced \in BOOLEAN : runPrepare(c, id, forced))
            => /\ lastOp' = RunOp(id, "already-running")
               /\ calls'[c].pc = "idle"]_cronVars

C1_Witness ==
    \E id \in JobIds :
        /\ lastOp = RunOp(id, "already-running")
        /\ Cardinality(Executing(id)) = 1
        /\ \E c \in Callers : calls[c].pc = "idle"

\* C6: a `finished` event of a run is emitted only after the `started` event
\* of the same run (same job, same runAtMs).
C6_StartedBeforeFinished ==
    \A e \in events :
        e.kind = "finished" => Ev("started", e.jobId, e.runAtMs) \in events

C6_Witness == \E e \in events : e.kind = "finished"

C8_DisabledHasNoRunState ==
    \A id \in DOMAIN store :
        ~store[id].enabled =>
            /\ ~IsNum(store[id].state.nextRunAtMs)
            /\ ~IsNum(store[id].state.runningAtMs)

\* C8 (amended): a job with enabled=false has nextRunAtMs undefined, and its
\* runningAtMs is undefined except while a run of it, which only
\* run(id, "force") can reserve, is in progress.
C8_DisabledHasNoNextRun ==
    \A id \in DOMAIN store :
        ~store[id].enabled =>
            /\ ~IsNum(store[id].state.nextRunAtMs)
            /\ IsNum(store[id].state.runningAtMs) => RunInProgress(id)

C8_Witness ==
    \E id \in DOMAIN store :
        /\ ~store[id].enabled
        /\ IsNum(store[id].state.runningAtMs)
        /\ RunInProgress(id)
        /\ lastOp = RunOp(id, "reserved")

NextRunDecreased(id) ==
    /\ id \in DOMAIN store
    /\ id \in DOMAIN store'
    /\ IsNum(store[id].state.nextRunAtMs)
    /\ IsNum(store'[id].state.nextRunAtMs)
    /\ store'[id].state.nextRunAtMs < store[id].state.nextRunAtMs

JustExecuted(id) ==
    \/ \E c \in Callers : calls[c].jobId = id /\ runApply(c)
    \/ \E m \in missed : m.id = id /\ runMissedJobsApply(m)

ScheduleOrEnabledPatched(id) ==
    \E pe \in PatchEnabled, ps \in {NoSchedule} \cup PatchSchedules :
        /\ pe # NoEnabled \/ ps # NoSchedule
        /\ update(id, pe, ps)

\* C9 (as claimed, invariant I3): nextRunAtMs of a job never decreases unless
\* the job was just executed.
C9_NextRunMonotonic ==
    [][\A id \in JobIds : NextRunDecreased(id) => JustExecuted(id)]_cronVars

\* C9 (amended): nextRunAtMs of a job never decreases unless the job was just
\* executed or update patched its schedule or its enabled flag.
C9_NextRunMonotonicButPatch ==
    [][\A id \in JobIds :
          NextRunDecreased(id) => JustExecuted(id) \/ ScheduleOrEnabledPatched(id)]_cronVars

\* an update has brought the every-1 schedule and the next run it computed is now
C9_Witness ==
    /\ lastOp.op = "update"
    /\ \E id \in DOMAIN store :
          /\ store[id].schedule.kind = "every"
          /\ store[id].schedule.everyMs = 1
          /\ store[id].state.nextRunAtMs = now
          /\ now > 0

PastDueNeverRun(id) ==
    LET st == store[id].state
    IN /\ IsNum(st.nextRunAtMs)
       /\ st.nextRunAtMs <= now
       /\ ~IsNum(st.runningAtMs)
       /\ (IsNum(st.lastRunAtMs) => st.lastRunAtMs < st.nextRunAtMs)

\* C10: recomputeNextRuns (called by add and by the last block of start)
\* leaves a job unchanged whose slot is past due and was not executed
\* (lastRunAtMs < nextRunAtMs <= now, runningAtMs unset).
C10_RecomputePreservesPastDue ==
    [][(startFinish \/ \E enabled \in BOOLEAN, sched \in InputSchedules : add(enabled, sched))
          => \A id \in DOMAIN store :
                PastDueNeverRun(id) => id \in DOMAIN store' /\ store'[id] = store[id]]_cronVars

C10_Witness ==
    /\ lastOp.op = "add"
    /\ \E id \in DOMAIN store : id < nextId - 1 /\ PastDueNeverRun(id)

-----------------------------------------------------------------------------
(* Claims on system.run *)

PolicyDenied == execPolicy # NoPolicy /\ ~execPolicy.allowed

ExecDenied == \E e \in execEvents : e.event = "exec.denied"

\* the reasons of an exec.denied event that do not come from the policy engine
RefusalReasons ==
    {"companion-unavailable", "approval-required", "user-denied", "permission:screenRecording"}

\* C2 (as claimed): exec.denied is emitted if and only if the policy engine
\* denied the command; a policy-allowed run that failed emits exec.finished
\* with success=false and never exec.denied.
C2_DeniedIffPolicyDenied ==
    execPc = "done" =>
        /\ ExecDenied <=> PolicyDenied
        /\ execRun = "failure" => execEvents = sendExecFinishedEvent(FALSE)

\* C2 (amended): exec.denied with the engine's reason is emitted whenever the
\* policy engine denied the command; a command that ran emits exec.finished
\* with its success flag and never exec.denied; for a policy-allowed command
\* exec.denied is emitted only when the command was not run, because the exec
\* host was unreachable or refused it or because it needs screen recording.
C2_DeniedWhenPolicyDeniedOrNotRun ==
    execPc = "done" =>
        /\ PolicyDenied => execEvents = {DeniedEvent(execPolicy.eventReason)}
        /\ execRun # "none" => execEvents = sendExecFinishedEvent(execRun = "success")
        /\ ExecDenied /\ ~PolicyDenied =>
              /\ execRun = "none"
              /\ execPolicy.allowed
              /\ \A e \in execEvents : e.reason \in RefusalReasons

C2_Witness ==
    /\ execPc = "done"
    /\ execPolicy.allowed
    /\ execRun = "failure"
    /\ execEvents = sendExecFinishedEvent(FALSE)

-----------------------------------------------------------------------------
(* Claims on the command lanes *)

HasSessionKey(t) == Trim(turns[t].sessionKey) # <<>>

SameSession(t, u) ==
    /\ HasSessionKey(t)
    /\ Trim(turns[t].sessionKey) = Trim(turns[u].sessionKey)

\* C3: at most one agent turn of a session key is running at any time: a turn
\* submitted while an earlier turn of its session key has not completed is
\* not started before that turn has completed.
C3_OneTurnPerSessionKey ==
    \A t, u \in DOMAIN turns :
        /\ t < u /\ SameSession(t, u) /\ turns[u].pc \in ActivePcs => turns[t].pc = "done"
        /\ t < u /\ SameSession(t, u) /\ turns[t].pc \in ActivePcs => turns[u].pc = "queued"

C3_Witness ==
    \E t, u \in DOMAIN turns :
        /\ t < u
        /\ SameSession(t, u)
        /\ turns[t].sessionId # turns[u].sessionId
        /\ turns[t].pc = "running"
        /\ turns[u].pc = "queued"

-----------------------------------------------------------------------------
(* Claims on runReplyAgent *)

\* C4 (as claimed): when runReplyAgent returns after a block reply payload
\* was delivered, the payloads it returns are empty.
C4_NoFinalAfterBlock ==
    [][(replyPc # "returned" /\ replyPc' = "returned" /\ didStreamBlockReply)
          => finalPayloads' = {}]_replyVars

-----------------------------------------------------------------------------
(* Claims on chat.send *)

FinalsOf(key) == SelectSeq(chatBroadcasts[key], LAMBDA m : m.state = "final")

\* C5: for a chat run with idempotency key K at most one chat message with
\* state final is broadcast (and its runId is K).
C5_OneFinalPerRun ==
    \A key \in ChatKeys :
        /\ Len(FinalsOf(key)) <= 1
        /\ \A i \in DOMAIN chatBroadcasts[key] : chatBroadcasts[key][i].runId = key

\* a second chat.send with the key of a finished run was answered from the cache
C5_Witness ==
    \E key \in ChatKeys :
        /\ Len(FinalsOf(key)) = 1
        /\ chatResponse = [runId |-> key, status |-> "cached"]

-----------------------------------------------------------------------------
(* Claims on the read operations *)

PastDue(id) ==
    /\ IsNum(store[id].state.nextRunAtMs)
    /\ store[id].state.nextRunAtMs <= now

\* C11: list and status never advance a past-due slot: every job whose
\* nextRunAtMs is at most now before the call has the same nextRunAtMs after it.
C11_ReadsKeepPastDue ==
    [][(list \/ status) =>
         \A id \in DOMAIN store :
            PastDue(id) =>
              /\ id \in DOMAIN store'
              /\ store'[id].state.nextRunAtMs = store[id].state.nextRunAtMs]_vars

\* a list call has returned while an enabled job is past due
C11_Witness ==
    /\ lastOp.op = "list"
    /\ \E id \in DOMAIN store : store[id].enabled /\ PastDue(id)

-----------------------------------------------------------------------------
(* Claims on start *)

StartPhases == {<<"idle", "missed">>, <<"missed", "replay">>, <<"replay", "done">>}

\* C12: start performs its phases in order: first every stale runningAtMs
\* marker is cleared (and persisted), then the missed jobs are replayed with the
\* jobs whose marker was just cleared skipped, and only after the replay the
\* store is reloaded, the next runs are recomputed and the timer is armed.
C12_StartPhaseOrder ==
    [][/\ startPc' # startPc => <<startPc, startPc'>> \in StartPhases
       /\ (startPc = "idle" /\ startPc' = "missed") =>
             /\ \A id \in DOMAIN store' : ~IsNum(store'[id].state.runningAtMs)
             /\ startSkip' = {id \in DOMAIN store : IsNum(store[id].state.runningAtMs)}
       /\ (startPc = "missed" /\ startPc' = "replay") =>
             /\ \A m \in missed' : m.id \notin startSkip
             /\ \A id \in startSkip \cap DOMAIN store : store'[id] = store[id]
       /\ missed' # missed => startPc \in {"missed", "replay"}
       /\ (startPc = "replay" /\ startPc' = "done") =>
             /\ missed = {}
             /\ store' = recomputeNextRuns(store, now)]_vars

\* start has completed after skipping an interrupted job and replaying a missed one
C12_Witness ==
    /\ startPc = "done"
    /\ lastOp = Op("start", "started")
    /\ startSkip # {}
    /\ \E e \in events : e.kind = "finished" /\ e.jobId \notin startSkip

-----------------------------------------------------------------------------
(* Claims on the cron lock *)

\* C13: a job body is executed while its run does not hold the cron lock (its
\* run has no block on the lock at all), so a list or status call issued while
\* a job is executing completes without waiting for the job body to finish.
C13_BodyOutsideLock ==
    \A c \in BodiesExecuting :
        /\ lockOwner # c
        /\ \A i \in DOMAIN lockChain : lockChain[i] # c

\* a list or status call issued while a job body was executing has returned
\* and that body is still executing
C13_Witness ==
    \E r \in LockCallers, b \in BodiesExecuting :
        /\ lockCalls[r].pc = "done"
        /\ lockCalls[r].op \in {"list", "status"}
        /\ b \in lockCalls[r].bodies

-----------------------------------------------------------------------------
(* Claims on the queue modes *)

ArrivedDuringRun(m, mode) ==
    /\ qMsgs[m].mode = mode
    /\ qMsgs[m].arrival.active

Injectable(m) ==
    /\ qMsgs[m].arrival.streaming
    /\ ~qMsgs[m].arrival.compacting

\* C14: in steer mode a message that arrives while a run is active is injected
\* into the active run; if the injection fails (the run is not streaming) or
\* the run is in compaction, the message is enqueued as a follow-up turn.
C14_SteerOrFollowup ==
    \A m \in MsgIds :
        ArrivedDuringRun(m, "steer") =>
            /\ Injectable(m) => qMsgs[m].route = "steered"
            /\ ~Injectable(m) => qMsgs[m].route = "followup"

\* a steer-mode message arrived during compaction and was enqueued
C14_Witness ==
    \E m \in MsgIds :
        /\ ArrivedDuringRun(m, "steer")
        /\ qMsgs[m].arrival.compacting
        /\ qMsgs[m].route = "followup"

RunAborted(p) ==
    \/ activeRun.msg = p /\ activeRun.aborted
    \/ qMsgs[p].aborted

TurnStarted(m) == qMsgs[m].state \in {"running", "done"}

\* C16: in interrupt mode a turn that arrives while another turn of the session
\* is streaming aborts the prior run and then starts as a fresh turn: it is
\* neither injected nor enqueued, and it runs only after the prior run ended.
C16_InterruptAbortsPrior ==
    \A m \in MsgIds :
        (qMsgs[m].mode = "interrupt" /\ qMsgs[m].arrival.streaming) =>
            /\ RunAborted(qMsgs[m].arrival.prior)
            /\ qMsgs[m].route = "fresh"
            /\ TurnStarted(m) => qMsgs[qMsgs[m].arrival.prior].state = "done"

\* a turn that interrupted a streaming run is running after the aborted run ended
C16_Witness ==
    \E m \in MsgIds :
        /\ qMsgs[m].mode = "interrupt"
        /\ qMsgs[m].arrival.streaming
        /\ qMsgs[m].state = "running"
        /\ qMsgs[qMsgs[m].arrival.prior].aborted

-----------------------------------------------------------------------------
(* Claims on the dispatch wrappers *)

HeadIsBlockedWrapper ==
    /\ wrapArgv # <<>>
    /\ normalizeExecutableToken(Head(wrapArgv)) \in BlockedWrappers

\* C18: an argv whose head is one of chrt, doas, ionice, setsid, sudo or taskset
\* is classified as blocked, whatever follows it, and is never unwrapped to its
\* inner command.
C18_PrivilegedWrapperBlocked ==
    HeadIsBlockedWrapper =>
        /\ wrapResult.kind = "blocked"
        /\ wrapResult.argv = NullArgv
        /\ wrapResolved = wrapArgv

\* sudo in front of a transparent wrapper and a command was classified
C18_Witness ==
    /\ wrapArgv = <<"sudo", "nohup", "ls">>
    /\ wrapResult.kind = "blocked"

-----------------------------------------------------------------------------
(* Claims on shell wrappers in system.run *)

\* the request carries an approval: approvalDecision is allow-once or
\* allow-always, or params.approved is true
ExplicitApproval ==
    execOpts.approvalDecision # "none" \/ execOpts.approved

CommandStarted ==
    \/ execPc \in {"host", "local"}
    \/ execRun # "none"
    \/ \E e \in execEvents : e.event = "exec.finished"

-----------------------------------------------------------------------------
(* Claims on the attempt loop of runEmbeddedPiAgent *)

(* The attempt ended, not aborted, with an auth or rate-limit error, thrown  *)
(* by the prompt or left on the last assistant message                      *)
EndedInAuthOrRateLimit(attempt) ==
    /\ attempt.next # "none"
    /\ ~aborted(attempt.result)
    /\ isAuthOrRateLimit(attempt.result.thrown) \/ isAuthOrRateLimit(attempt.result.assistant)

(* A later profile of the order has a key that resolves *)
LaterProfileUsable(attempt) ==
    /\ attempt.profileId # 0
    /\ \E i \in authCfg.usable : i > attempt.profileId /\ i <= authCfg.profiles
    /\ authCfg.explicit <= attempt.profileId

\* C20: whenever an attempt ends in an auth failure or a rate limit (and a
\* later profile of the order is usable), the profile of the attempt is marked
\* for cooldown, the runner advances to a later profile and retries the turn.
C20_AuthFailureCoolsAndRotates ==
    (EndedInAuthOrRateLimit(lastAttempt) /\ LaterProfileUsable(lastAttempt)) =>
        /\ lastAttempt.profileId \in cooldownMarks
        /\ lastAttempt.next = "retry-profile"
        /\ authPc \in {"loop", "prompting"} => lastProfileId > lastAttempt.profileId

\* C21: on an unsupported-thinking-level error the runner retries with a lower
\* level that was not attempted yet; an attempt never starts with a level that
\* was already attempted on the profile in use, the levels attempted on a
\* profile being forgotten only when the run moves on to a later profile.
C21_ThinkingFallbackOnce ==
    [][/\ (authPc = "prompting" /\ lastAttempt'.next = "retry-thinking") =>
              /\ "thinking" \in {lastAttempt'.result.thrown, lastAttempt'.result.assistant}
              /\ thinkLevel' \notin attemptedThinking
              /\ ThinkRank(thinkLevel') < ThinkRank(thinkLevel)
              /\ lastProfileId' = lastProfileId
       /\ (authPc = "loop" /\ authPc' = "prompting") => thinkLevel \notin attemptedThinking
       /\ attemptedThinking' # attemptedThinking =>
              \/ authPc = "loop" /\ attemptedThinking' = attemptedThinking \cup {thinkLevel}
              \/ lastProfileId' > lastProfileId /\ attemptedThinking' = {}]_vars

C21_Witness ==
    /\ authPc = "prompting"
    /\ lastAttempt.next = "retry-thinking"
    /\ lastAttempt.profileId = lastProfileId
    /\ ThinkRank(thinkLevel) < ThinkRank(lastAttempt.thinkLevel)
    /\ attemptedThinking = {thinkLevel, lastAttempt.thinkLevel}

(* The place of the attempt's profile in profileCandidates *)
AttemptIndex(attempt) == IF attempt.profileId = 0 THEN 1 ELSE attempt.profileId

(* The later candidates whose key resolves *)
LaterUsable(attempt) ==
    {i \in authCfg.usable : i > AttemptIndex(attempt) /\ i <= Len(profileCandidates(authCfg))}

(* The explicit profile comes before every later usable candidate and its    *)
(* key does not resolve: the search for the next profile throws              *)
ExplicitBlocks(attempt) ==
    /\ authCfg.explicit > AttemptIndex(attempt)
    /\ authCfg.explicit \notin authCfg.usable
    /\ \A i \in LaterUsable(attempt) : i > authCfg.explicit

TimedOutAttempt == lastAttempt.next # "none" /\ timedOut(lastAttempt.result)

(* C22 as stated: on an account with several profiles a timed-out attempt    *)
(* puts its profile in cooldown and the run retries on the next profile      *)
C22_TimeoutAlwaysRotates ==
    (TimedOutAttempt /\ authCfg.profiles >= 2) =>
        /\ lastAttempt.profileId \in cooldownMarks
        /\ lastAttempt.next = "retry-profile"

\* C22 (amended): a timed-out attempt puts the profile in use in cooldown; the
\* run retries on the first later profile whose key resolves when there is
\* one, and otherwise throws (fallbacks configured, or the explicit profile's
\* key does not resolve) or returns.
C22_TimeoutCoolsThenRotatesIfPossible ==
    TimedOutAttempt =>
        /\ lastAttempt.profileId # 0 => lastAttempt.profileId \in cooldownMarks
        /\ IF LaterUsable(lastAttempt) # {} /\ ~ExplicitBlocks(lastAttempt)
           THEN /\ lastAttempt.next = "retry-profile"
                /\ authPc \in {"loop", "prompting"}
                /\ lastProfileId \in LaterUsable(lastAttempt)
                /\ \A i \in LaterUsable(lastAttempt) : lastProfileId <= i
           ELSE IF ExplicitBlocks(lastAttempt) \/ authCfg.fallbackConfigured
           THEN lastAttempt.next = "throw" /\ authPc = "thrown"
           ELSE lastAttempt.next = "return" /\ authPc = "returned"

C22_Witness ==
    /\ TimedOutAttempt
    /\ authCfg.profiles >= 2
    /\ lastAttempt.profileId = 1
    /\ cooldownMarks = {1}
    /\ lastProfileId = 2
    /\ authPc = "prompting"

-----------------------------------------------------------------------------
(* Claims on the hook stream wrapper *)

\* C23: a call whose before_llm_call hook returned block = true never reaches
\* the inner StreamFn and fails with "LLM call blocked by plugin: <reason>",
\* the reason being the hook's blockReason when it gave one.
C23_BlockedCallFails ==
    \A i \in LlmCallIds :
        (llmCalls[i].before.kind = "result" /\ llmCalls[i].before.block) =>
            /\ ~llmCalls[i].streamed
            /\ Len(llmCalls[i].error) = 2
            /\ llmCalls[i].error[1] = "LLM call blocked by plugin:"
            /\ llmCalls[i].before.blockReason # "undefined" =>
                   llmCalls[i].error[2] = llmCalls[i].before.blockReason

C23_Witness ==
    /\ llmCalls[1].pc = "done" /\ llmCalls[1].streamed
    /\ llmCalls[2].pc = "done" /\ llmCalls[2].before.block
    /\ llmCalls[2].before.blockReason = "policy"
    /\ llmCalls[2].error = <<"LLM call blocked by plugin:", "policy">>

\* C24: within a turn context_assembled fires on the first LLM call (when the
\* hook is registered) and on no later call.
C24_ContextAssembledFirstCallOnly ==
    /\ \A i \in LlmCallIds : llmCalls[i].contextAssembled => i = 1
    /\ ("context_assembled" \in hookRegs /\ llmCalls[1].pc # "idle") => llmCalls[1].contextAssembled

C24_Witness ==
    /\ llmCalls[1].contextAssembled
    /\ llmCalls[2].pc = "done" /\ llmCalls[2].streamed /\ ~llmCalls[2].contextAssembled
    /\ llmCalls[3].pc = "done" /\ ~llmCalls[3].contextAssembled

-----------------------------------------------------------------------------
(* Claims on a turn of runReplyAgent *)

\* C25: during a heartbeat turn neither startTypingOnText nor startTypingLoop
\* is called, whatever the agent streams or returns, and the typing loop is
\* never armed.
C25_HeartbeatNeverSignalsTyping ==
    rtCfg.isHeartbeat =>
        /\ typingCalls \cap {"startTypingOnText", "startTypingLoop"} = {}
        /\ ~typingArmed /\ ~typingEverArmed

C25_Witness ==
    /\ rtCfg.isHeartbeat
    /\ rtCallbacks >= 2
    /\ rtExit = "reply"
    /\ typingCalls = {"markRunComplete"}

\* C26: whenever the agent emitted a compaction event with phase = end and
\* willRetry = false during a turn whose agent run returned, the
\* compactionCount of the session entry is incremented for that turn.
C26_CompactionEndCounted ==
    (rtPc = "done" /\ rtExit \in {"reply", "empty"} /\ rtCfg.hasSession /\ compactionEndSeen) =>
        sessionEntry.compactionCount = InitialEntry.compactionCount + 1

\* C27: every step of a turn that changes a field of the session entry also
\* changes the entry's updatedAt.
C27_MutationTouchesUpdatedAt ==
    [][(rtPc # "idle" /\ EntryFields(sessionEntry') # EntryFields(sessionEntry)) =>
           sessionEntry'.updatedAt # sessionEntry.updatedAt]_vars

-----------------------------------------------------------------------------
(* Claims on the allowlist use of system.run *)

(* The patterns of the allowlist entries the command matched *)
MatchedPatterns == {execOpts.allowlistMatches[i] : i \in DOMAIN execOpts.allowlistMatches} \ {""}

UsedPatterns == {execAllowlistUse[i] : i \in DOMAIN execAllowlistUse}

(* C28 as stated: every system.run command that matched allowlist entries    *)
(* has recorded the use of each matched pattern when the handler is done     *)
C28_EveryMatchRecorded ==
    (execPc = "done" /\ execOpts.command # "invalid") => MatchedPatterns \subseteq UsedPatterns

\* C28 (amended): a command the policy allowed and the node host ran itself
\* has the use of every distinct pattern it matched recorded exactly once; a
\* command the policy denied records no use.
C28_AllowedLocalRunRecordsUse ==
    /\ (execPc = "done" /\ execPolicy.allowed /\ ~execOpts.preferMacAppExecHost) =>
           /\ UsedPatterns = MatchedPatterns
           /\ Len(execAllowlistUse) = Cardinality(MatchedPatterns)
    /\ ~execPolicy.allowed => execAllowlistUse = <<>>

C28_Witness ==
    /\ execPc = "done"
    /\ execRun = "success"
    /\ ~execOpts.preferMacAppExecHost
    /\ Len(execOpts.allowlistMatches) = 4
    /\ execAllowlistUse = <<"/bin/ls", "/bin/cat">>

-----------------------------------------------------------------------------
(* Claims on the before_response_emit hook *)

(* C29: when a before_response_emit hook returns block = true the current    *)
(* reply is not emitted, and the queued follow-up turns stay queued: the     *)
(* run that was blocked removes none of them before it finalizes             *)
C29_BlockSuppressesCurrentReplyOnly ==
    [][/\ (emitResult'.block /\ emitPc' = "done") => emittedReply' = "none"
       /\ (emitResult.block /\ emitPc # "done") => queuedFollowups' >= queuedFollowups]_vars

-----------------------------------------------------------------------------
(* Claims on the reconnect delay *)

(* An attempt number that is not negative: a finite one, or an unbounded one *)
AttemptNotNegative == ~rcAttempt.finite \/ rcAttempt.n >= 0

(* C31 as stated: for every attempt a >= 0, an unbounded one included, the   *)
(* delay is at least baseMs and at most maxMs + jitterMs                     *)
C31_DelayWithinBounds ==
    (rcPc = "done" /\ AttemptNotNegative) =>
        /\ baseMsOf(rcOpts) <= rcDelay
        /\ rcDelay <= maxMsOf(rcOpts) + jitterMsOf(rcOpts)

\* C31 (amended): for every attempt, a negative or not finite one counting as
\* attempt 0, the delay is at least the smaller of baseMs and maxMs and at
\* most maxMs plus the jitter, a negative jitter counting as none.
C31_DelayWithinClampedBounds ==
    rcPc = "done" =>
        /\ Min2(baseMsOf(rcOpts), maxMsOf(rcOpts)) <= rcDelay
        /\ rcDelay <= maxMsOf(rcOpts) + Max2(0, jitterMsOf(rcOpts))
        /\ (~rcAttempt.finite \/ rcAttempt.n <= 0) =>
               rcDelay <= Min2(baseMsOf(rcOpts), maxMsOf(rcOpts)) + Max2(0, jitterMsOf(rcOpts))

C31_Witness ==
    /\ rcPc = "done"
    /\ rcAttempt = Num(5)
    /\ rcOpts.baseMs = Num(1000) /\ rcOpts.maxMs = Num(30000) /\ rcOpts.jitterMs = Num(1000)
    /\ rcOpts.random = 3
    /\ rcDelay = 30750

-----------------------------------------------------------------------------
(* Claims on run(id, mode) beside update and remove *)

\* C32: a cron job is never executing twice at the same time, whatever
\* update, remove and add do while a run of the job is in progress.
C32_NeverExecutingTwice ==
    \A id \in JobIds : Cardinality(Executing(id)) <= 1

\* C33: every `started` event of a run is eventually followed by the
\* `finished` event of that run (same job, same runAtMs).
C33_StartedLeadsToFinished ==
    \A id \in JobIds, t \in 0..MaxNow :
        (Ev("started", id, t) \in events) ~> (Ev("finished", id, t) \in events)

-----------------------------------------------------------------------------
(* Claims on the retry loop of runEmbeddedPiAgent *)

\* C34: every retry of the loop either strictly advances the auth profile
\* index or moves, on the same profile, to a thinking level not yet attempted
\* on it; the attempts of a run number at most (profile candidates) x
\* (thinking levels), and on the current profile at most the levels attempted.
C34_RetryLoopBounded ==
    /\ [](attemptCount <= Len(profileCandidates(authCfg)) * Len(ThinkLevels))
    /\ [](authPc \in {"loop", "prompting"} =>
             attemptCount <= (profileIndex - 1) * Len(ThinkLevels) + Cardinality(attemptedThinking) + 1)
    /\ [][(authPc = "prompting" /\ authPc' = "loop") =>
             \/ profileIndex' > profileIndex
             \/ /\ profileIndex' = profileIndex
                /\ thinkLevel' \notin attemptedThinking
                /\ attemptedThinking' = attemptedThinking]_vars

C34_Witness ==
    /\ authPc = "returned"
    /\ authCfg.profiles = 2
    /\ profileIndex = 2
    /\ attemptCount = 4

-----------------------------------------------------------------------------
(* Claims on the execution of a system.run command *)

\* C35: the command of a system.run request is executed, by runCommand or by
\* the exec host of the mac app, only if the policy allowed the request; and a
\* request for which exec.denied was emitted has not executed its command.
C35_ExecutedOnlyIfAllowed ==
    /\ execRun # "none" => execPolicy.allowed
    /\ ExecDenied => execRun = "none"

C35_Witness ==
    /\ execPc = "done"
    /\ execOpts.preferMacAppExecHost
    /\ execPolicy.allowed
    /\ execPolicy.approvedByAsk
    /\ execRun = "success"

-----------------------------------------------------------------------------
(* Claims on the detection of shell wrappers *)

(* The argv under all of its dispatch wrappers, however many *)
UnderAllWrappers(argv) == unwrapLoop(argv, 0, Len(argv) + 1)

(* The argv invokes, under its dispatch wrappers, a shell with an inline     *)
(* command                                                                   *)
InvokesShellInline(argv) ==
    extractShellWrapperCommandInternal(UnderAllWrappers(argv), "null", 0, 1).isWrapper

\* C36: a shell inline-command invocation is detected as a shell wrapper
\* under any number of dispatch wrappers, also beyond the depth cap.
C36_NestedShellWrapperDetected ==
    (wrapArgv # <<>> /\ InvokesShellInline(wrapArgv)) => wrapShell.isWrapper

-----------------------------------------------------------------------------
(* Claims on block payloads whose delivery failed *)

(* The block payloads whose delivery failed and that are among the payloads  *)
(* the run resolved with                                                     *)
FailedFinalPayloads == failedPayloadKeys \cap payloadArray

(* C37 as stated: a block payload whose delivery failed and that is among    *)
(* the run's final payloads is returned by runReplyAgent, also when other    *)
(* blocks of the turn were delivered                                         *)
C37_FailedBlockReturned ==
    replyPc = "returned" => FailedFinalPayloads \subseteq finalPayloads

\* C37 (amended): when the run resolved, a block payload whose delivery failed
\* and that is among the run's payloads is returned if no block reply of the
\* turn was delivered; once a block reply was delivered nothing is returned.
C37_FailedBlockReturnedUnlessStreamed ==
    replyPc = "returned" =>
        /\ ~didStreamBlockReply => FailedFinalPayloads \subseteq finalPayloads
        /\ (didStreamBlockReply /\ payloadArray # {}) => finalPayloads = {}

C37_Witness ==
    /\ replyPc = "returned"
    /\ ~didStreamBlockReply
    /\ "hi" \in FailedFinalPayloads
    /\ "hi" \in finalPayloads

-----------------------------------------------------------------------------
(* Claims on the marks a run leaves on its auth profiles *)

(* C38: an auth profile that the run has put in cooldown because of an auth, *)
(* rate-limit or timeout failure is not marked good by that same run         *)
C38_CooledProfileNotMarkedGood == cooldownMarks \cap goodMarks = {}

-----------------------------------------------------------------------------
(* Claims on the delivery tasks of a turn *)

(* C39: all block-reply and tool-result delivery tasks started during a run  *)
(* have settled when the turn finalizes, on every way out of runReplyAgent   *)
(* that ran the agent, agent failure included                                *)
C39_TasksSettledBeforeFinalize ==
    (rtPc = "done" /\ rtExit \notin {"steered", "enqueued"}) =>
        (pendingBlockTasks = 0 /\ pendingToolTasks = 0)

-----------------------------------------------------------------------------
(* Claims on waitForEmbeddedPiRunEnd *)

(* The turn of runEmbeddedPiAgent is under way: it has made an attempt and   *)
(* has neither returned nor thrown                                           *)
TurnUnderWay == attemptCount > 0 /\ authPc \in {"loop", "prompting"}

(* C40: waitForEmbeddedPiRunEnd resolves true only when the agent turn of    *)
(* the session has completely ended, not between two attempts of the turn,   *)
(* and resolves false only when its timer fires while it waits               *)
C40_WaitResolvesAfterTurnEnd ==
    [][/\ (runWaiter # "true" /\ runWaiter' = "true") => ~TurnUnderWay'
       /\ (runWaiter # "false" /\ runWaiter' = "false") => runWaiter = "waiting"]_vars

====
